---- MODULE Spec2Model ----
(***************************************************************************)
(* OpenFrame slideshow: the slide composer, the slideshow controller       *)
(* (SlideshowGame), the program entry point and the CEC remote listener,   *)
(* as one state machine.                                                   *)
(*                                                                         *)
(* Slices are Go slices: the model keeps them as TLA+ sequences (1-based)  *)
(* and keeps every index variable of the program 0-based, as in the code.  *)
(***************************************************************************)
EXTENDS Integers, Sequences, FiniteSets, TLC

(***************************************************************************)
(* Bounds of the model.                                                    *)
(***************************************************************************)
\* longest photo sequence handed to the slide composer on its own
MaxPhotos == 4
\* largest catalog photo.Load returns to main
MaxCatalog == 3
\* last instant of the wall clock
MaxTime == 2
\* largest configured slide interval (cfg.Interval), in clock units
MaxInterval == 1
\* longest time one slide load takes, in clock units
MaxLoadTime == 1
\* most remote events waiting in the channel at once in the explored runs
MaxQueued == 1
\* longest side, in pixels, of the images handed to the loader on its own
MaxSide == 5
\* largest tile edge the loader is run with
MaxTileSize == 2
\* the largest offset of a GIF frame in its logical screen
MaxOffset == 1
\* most lines of cec-client output in the runs that try every line
MaxLines == 3
\* latest whole second, and latest nanosecond within it, of a file time
MaxSec == 1
MaxNsec == 1
\* most remote events waiting at a tick in the runs that look at the drain
MaxDrained == 2
\* the photos of the catalog shown while the listener runs
MaxShown == 2
\* longest side of the small images drawSlide is run with, the largest tile
\* edge it is run with, and the most tiles of one image
MaxSmallSide == 3
MaxDrawTile == 16
MaxTiles == 9

(***************************************************************************)
(* Program constants.                                                      *)
(***************************************************************************)
\* cec.RemoteCommand (iota)
RemoteUnknown == 0
RemoteLeft == 1
RemoteRight == 2
RemoteSelect == 3
\* capacity of the remoteEvents channel made by main
RemoteEventsCap == 10
\* nanoseconds in a second, as time.Time.UnixNano counts them
NanosPerSecond == 1000000000

\* the logical screen size Layout returns, which is the size of the screen
\* Draw is handed
LayoutWidth == 1920
LayoutHeight == 1080

VARIABLES
    pc,                 \* where main() is: see the actions below
    photos,             \* the catalog: []photo.Photo, in playback order
    slides,             \* SlideshowGame.slides
    currentIndex,       \* SlideshowGame.currentIndex
    currentTiledImages, \* SlideshowGame.currentTiledImages
    loadingError,       \* SlideshowGame.loadingError
    interval,           \* SlideshowGame.interval
    gDateOverlay,       \* SlideshowGame.dateOverlay
    switchTime,         \* SlideshowGame.switchTime
    paused,             \* the controller's paused flag
    remoteEvents,       \* the channel of cec.RemoteCommand between listener and game
    escPressed,         \* inpututil.IsKeyJustPressed(ebiten.KeyEscape)
    ticked,             \* whether Update has run since the last Draw
    now,                \* the wall clock, time.Now()
    screen,             \* what the last Draw put on the screen
    trace,              \* the Dispose and loader calls, in order, of the last
                        \* slide change (or of main's first load)
    \* the image loader taken on its own (tile.go)
    decoded,            \* src as image.Decode returned it
    orientation,        \* p.Orientation
    maxTileSize,        \* the tile edge: 2048 in the source, which uses it only in
                        \* sums and comparisons; here it ranges over TileSizes
    corrected,          \* src after applyEXIFOrientation
    tiled,              \* the *TiledImage returned
    \* the CEC listener goroutine taken on its own (traffic_listener.go)
    stdout,             \* the lines cec-client prints, as the key code of a
                        \* user-control-pressed line or "" for any other line
    scanned,            \* how many of them scanner.Scan() has returned
    listener,           \* where the goroutine is: "scan", "send" or "exit"
    pending,            \* the cmdVal the goroutine is sending
    received,           \* the commands taken out of the channel, in order
    \* the metadata cache taken on its own (metadata cache of package photo)
    cache,              \* the *metadataCache
    written,            \* per path: the modification time and photo of the last
                        \* set, unless a prune has dropped the path since
    lookup,             \* the arguments and the result of the last get
    \* the sync script taken on its own (openframe-sync.sh)
    env,                \* OPENFRAME_START_HHMM and OPENFRAME_STOP_HHMM as set in
                        \* the environment, each a sequence of characters
    clock,              \* what date prints: the hour (%H) and the minute (%M)
    commands,           \* the commands the script has run, in order
    \* drawSlide taken on its own (draw.go)
    loaded,             \* the tiledImages handed to drawSlide
    argSlide,           \* the slide handed to drawSlide
    drawCalls,          \* the screen.DrawImage calls made, in order
    fused               \* whether the build computes x*y + z with one rounding
                        \* (arm64) or with two (amd64)

\* the variables of the image loader
loaderVars == <<decoded, orientation, maxTileSize, corrected, tiled>>

\* the variables of the listener goroutine
remoteVars == <<stdout, scanned, listener, pending, received>>

\* the variables of the metadata cache
cacheVars == <<cache, written, lookup>>

\* the variables of the sync script
syncVars == <<env, clock, commands>>

\* the variables of drawSlide
drawVars == <<loaded, argSlide, drawCalls, fused>>

\* the variables outside the slideshow: main and the game leave them alone
otherVars == <<loaderVars, remoteVars, cacheVars, syncVars, drawVars>>

vars == <<pc, photos, slides, currentIndex, currentTiledImages, loadingError,
          interval, gDateOverlay, switchTime, paused, remoteEvents, escPressed, ticked, now, screen, trace,
          otherVars>>

\* the variables of the slideshow: the other parts leave them alone
gameVars == <<photos, slides, currentIndex, currentTiledImages, loadingError,
              interval, gDateOverlay, switchTime, paused, remoteEvents, escPressed, ticked, now, screen, trace>>

\* the slideshow's variables other than the channel
frameVars == <<photos, slides, currentIndex, currentTiledImages, loadingError,
               interval, gDateOverlay, switchTime, paused, escPressed, ticked, now, screen, trace>>

\* the loader's variables while no image is being loaded
LoaderIdle ==
    /\ decoded = <<>>
    /\ orientation = 1
    /\ maxTileSize = 1
    /\ corrected = <<>>
    /\ tiled = <<>>

\* the listener's variables while no listener runs
RemoteIdle ==
    /\ stdout = <<>>
    /\ scanned = 0
    /\ listener = "exit"
    /\ pending = 0
    /\ received = <<>>

\* the cache's variables while no cache is in use
CacheIdle ==
    /\ cache = <<>>
    /\ written = <<>>
    /\ lookup = <<>>

\* the script's variables while no script runs
SyncIdle ==
    /\ env = <<>>
    /\ clock = <<>>
    /\ commands = <<>>

\* drawSlide's variables while nothing is drawn
DrawIdle ==
    /\ loaded = <<>>
    /\ argSlide = <<>>
    /\ drawCalls = <<>>
    /\ fused = FALSE

\* the other parts at rest
OthersIdle == LoaderIdle /\ RemoteIdle /\ CacheIdle /\ SyncIdle /\ DrawIdle

(***************************************************************************)
(* photo.Photo: FilePath is the photo's identity; here it is a number.     *)
(***************************************************************************)
Photo(path, w, h) == [FilePath |-> path, Width |-> w, Height |-> h]

\* every photo sequence of length n whose dimensions come from dims; the
\* i-th photo's path is i, so that paths are unique as the directory walk makes them
PhotoSeqs(n, dims) ==
    { [i \in 1..n |-> Photo(i, d[i][1], d[i][2])] : d \in [1..n -> dims] }

\* <<width, height>> of a portrait, a landscape and a square photo
Portrait == <<2, 3>>
Landscape == <<3, 2>>
Square == <<2, 2>>

\* the inputs of the slide composer taken on its own
ComposerInputs ==
    UNION { PhotoSeqs(n, {Portrait, Landscape, Square}) : n \in 0..MaxPhotos }

\* the catalogs photo.Load hands to main
Catalogs ==
    UNION { PhotoSeqs(n, {Portrait, Landscape}) : n \in 0..MaxCatalog }

(***************************************************************************)
(* Slide composer (slideshow.go).                                          *)
(***************************************************************************)
Slide(ps) == [Photos |-> ps]

\* isPortrait taking a square photo for a portrait
isPortraitOrSquare(p) == p.Height >= p.Width

isPortrait(p) == p.Height > p.Width

displayAllowsSideBySide == TRUE

\* the loop looking one photo further: the first of three portraits in a
\* row is left single so that the second pairs with the third
RECURSIVE buildLoopLookahead(_, _, _)
buildLoopLookahead(ps, i, acc) ==
    IF ~(i < Len(ps)) THEN acc
    ELSE LET current == ps[i + 1] IN
         IF /\ i + 1 < Len(ps)
            /\ isPortrait(current)
            /\ isPortrait(ps[i + 2])
            /\ displayAllowsSideBySide
            /\ ~(i + 2 < Len(ps) /\ isPortrait(ps[i + 3]))
         THEN buildLoopLookahead(ps, i + 2, Append(acc, Slide(<<current, ps[i + 2]>>)))
         ELSE buildLoopLookahead(ps, i + 1, Append(acc, Slide(<<current>>)))

\* the loop with the pair branch stepping by one instead of two
RECURSIVE buildLoopStepsByOne(_, _, _)
buildLoopStepsByOne(ps, i, acc) ==
    IF ~(i < Len(ps)) THEN acc
    ELSE LET current == ps[i + 1] IN
         IF /\ i + 1 < Len(ps)
            /\ isPortrait(current)
            /\ isPortrait(ps[i + 2])
            /\ displayAllowsSideBySide
         THEN buildLoopStepsByOne(ps, i + 1, Append(acc, Slide(<<current, ps[i + 2]>>)))
         ELSE buildLoopStepsByOne(ps, i + 1, Append(acc, Slide(<<current>>)))

\* the loop of BuildSlidesFromPhotos: i is the code's 0-based index
RECURSIVE buildLoop(_, _, _)
buildLoop(ps, i, acc) ==
    IF ~(i < Len(ps)) THEN acc
    ELSE LET current == ps[i + 1] IN
         IF /\ i + 1 < Len(ps)
            /\ isPortrait(current)
            /\ isPortrait(ps[i + 2])
            /\ displayAllowsSideBySide
         THEN buildLoop(ps, i + 2, Append(acc, Slide(<<current, ps[i + 2]>>)))
         ELSE buildLoop(ps, i + 1, Append(acc, Slide(<<current>>)))

BuildSlidesFromPhotos(ps) == buildLoop(ps, 0, <<>>)

(***************************************************************************)
(* The image loader (tile.go): Go's image package as far as the loader     *)
(* uses it, the orientation transforms and the tiling loops.               *)
(***************************************************************************)
\* image.Rect(x0, y0, x1, y1), for x0 <= x1 and y0 <= y1
Rect(x0, y0, x1, y1) == [MinX |-> x0, MinY |-> y0, MaxX |-> x1, MaxY |-> y1]
\* Rectangle.Dx, Rectangle.Dy, Rectangle.Empty
Dx(r) == r.MaxX - r.MinX
Dy(r) == r.MaxY - r.MinY
Empty(r) == r.MinX >= r.MaxX \/ r.MinY >= r.MaxY
\* the points of r
Points(r) == (r.MinX..(r.MaxX - 1)) \X (r.MinY..(r.MaxY - 1))
\* Rectangle.Intersect: the empty intersection is the zero rectangle
Intersect(r, q) ==
    LET t == Rect(IF r.MinX < q.MinX THEN q.MinX ELSE r.MinX,
                  IF r.MinY < q.MinY THEN q.MinY ELSE r.MinY,
                  IF r.MaxX > q.MaxX THEN q.MaxX ELSE r.MaxX,
                  IF r.MaxY > q.MaxY THEN q.MaxY ELSE r.MaxY)
    IN  IF Empty(t) THEN Rect(0, 0, 0, 0) ELSE t

\* an image: its bounds and the colour of each of its points; colours are
\* numbers, 0 being the zero colour (transparent black)
Image(r, pix) == [Rect |-> r, Pix |-> pix]
\* image.NewRGBA(r): every pixel the zero colour
NewRGBA(r) == Image(r, [p \in Points(r) |-> 0])
\* img.At(x, y): the zero colour outside the bounds
At(img, x, y) == IF <<x, y>> \in Points(img.Rect) THEN img.Pix[<<x, y>>] ELSE 0
\* img.Set(x, y, c): nothing outside the bounds
Set(img, x, y, c) ==
    IF <<x, y>> \in Points(img.Rect)
    THEN [img EXCEPT !.Pix = [img.Pix EXCEPT ![<<x, y>>] = c]]
    ELSE img
\* img.SubImage(r): the part of img inside r
SubImage(img, r) ==
    Image(Intersect(r, img.Rect),
          [p \in Points(Intersect(r, img.Rect)) |-> img.Pix[p]])

\* the image image.Decode returns: w x h pixels with the corner of its
\* bounds at (left, top), which is (0, 0) for a JPEG or a PNG and the place
\* of the first frame on the logical screen for a GIF; each pixel is of its
\* own colour, the pixel (x, y) from the corner of colour y*w + x + 1
DecodedFrame(left, top, w, h) ==
    Image(Rect(left, top, left + w, top + h),
          [p \in Points(Rect(left, top, left + w, top + h)) |->
              (p[2] - top) * w + (p[1] - left) + 1])

\* the images, the orientation values (1..8, and one below and one above)
\* and the tile edges the loader is run with
DecodedImages ==
    { DecodedFrame(left, top, w, h) :
        left \in 0..MaxOffset, top \in 0..MaxOffset,
        w \in 0..MaxSide, h \in 0..MaxSide }
Orientations == 0..9
TileSizes == 1..MaxTileSize

\* the two nested loops of every transform, y outside and x inside, from
\* their i-th pass on: pass i has x = i % w and y = i \div w, and sets the
\* pixel at to[<<x, y>>] of dst to the colour of src at (x+b.Min.X, y+b.Min.Y)
RECURSIVE pixelLoop(_, _, _, _)
pixelLoop(src, dst, to, i) ==
    IF i >= Dx(src.Rect) * Dy(src.Rect) THEN dst
    ELSE LET x == i % Dx(src.Rect)
             y == i \div Dx(src.Rect)
         IN  pixelLoop(src,
                       Set(dst, to[<<x, y>>][1], to[<<x, y>>][2],
                           At(src, x + src.Rect.MinX, y + src.Rect.MinY)),
                       to, i + 1)

\* the (x, y) the loops run over
LoopPoints(src) == (0..(Dx(src.Rect) - 1)) \X (0..(Dy(src.Rect) - 1))

\* flipHorizontal: left-right mirror
flipHorizontal(src) ==
    pixelLoop(src, NewRGBA(src.Rect),
              [p \in LoopPoints(src) |-> <<Dx(src.Rect) - 1 - p[1], p[2]>>], 0)

\* flipVertical: top-bottom mirror
flipVertical(src) ==
    pixelLoop(src, NewRGBA(src.Rect),
              [p \in LoopPoints(src) |-> <<p[1], Dy(src.Rect) - 1 - p[2]>>], 0)

\* rotate180: 180 degree rotation
rotate180(src) ==
    pixelLoop(src, NewRGBA(src.Rect),
              [p \in LoopPoints(src) |->
                  <<Dx(src.Rect) - 1 - p[1], Dy(src.Rect) - 1 - p[2]>>], 0)

\* rotate90: 90 degrees clockwise; the rotated image has size h x w
rotate90(src) ==
    pixelLoop(src, NewRGBA(Rect(0, 0, Dy(src.Rect), Dx(src.Rect))),
              [p \in LoopPoints(src) |-> <<Dy(src.Rect) - 1 - p[2], p[1]>>], 0)

\* rotate270: 270 degrees clockwise
rotate270(src) ==
    pixelLoop(src, NewRGBA(Rect(0, 0, Dy(src.Rect), Dx(src.Rect))),
              [p \in LoopPoints(src) |-> <<p[2], Dx(src.Rect) - 1 - p[1]>>], 0)

\* transpose: flip over the top-left/bottom-right diagonal
transpose(src) ==
    pixelLoop(src, NewRGBA(Rect(0, 0, Dy(src.Rect), Dx(src.Rect))),
              [p \in LoopPoints(src) |-> <<p[2], p[1]>>], 0)

\* transverse: transpose first, then flip horizontally
transverse(src) == flipHorizontal(transpose(src))

\* applyEXIFOrientation rotates/flips the image by the EXIF orientation value
applyEXIFOrientation(src, o) ==
    CASE o = 2 -> flipHorizontal(src)
      [] o = 3 -> rotate180(src)
      [] o = 4 -> flipVertical(src)
      [] o = 5 -> transpose(src)
      [] o = 6 -> rotate90(src)
      [] o = 7 -> transverse(src)
      [] o = 8 -> rotate270(src)
      [] OTHER -> src

minInt(a, b) == IF a < b THEN a ELSE b

\* a panic of ebiten: "width at NewImage must be positive" (or height)
Panics == [panic |-> "ebiten: width at NewImage must be positive"]
IsPanic(v) == "panic" \in DOMAIN v

\* ebiten.NewImageFromImage(subImg): a tile of the size of subImg's bounds
\* holding its pixels, the corner of the bounds at the tile's (0, 0); it
\* panics when subImg is empty
NewImageFromImage(sub) ==
    IF Dx(sub.Rect) <= 0 \/ Dy(sub.Rect) <= 0 THEN Panics
    ELSE [Width |-> Dx(sub.Rect), Height |-> Dy(sub.Rect),
          Pix |-> [p \in (0..(Dx(sub.Rect) - 1)) \X (0..(Dy(sub.Rect) - 1)) |->
                      At(sub, p[1] + sub.Rect.MinX, p[2] + sub.Rect.MinY)]]

\* the tiles appended so far, and whether a panic has ended the slicing
Sliced(tiles, panicked) == [tiles |-> tiles, panicked |-> panicked]
\* tiles = append(tiles, tile), unless making the tile panicked
appended(st, tile) ==
    IF IsPanic(tile) THEN Sliced(st.tiles, TRUE)
    ELSE Sliced(Append(st.tiles, tile), FALSE)

\* the inner loop of the slicing, for x := x; x < w; x += maxTileSize
RECURSIVE tileColumns(_, _, _, _, _, _)
tileColumns(src, w, h, y, x, st) ==
    IF st.panicked \/ ~(x < w) THEN st
    ELSE tileColumns(src, w, h, y, x + maxTileSize,
            appended(st,
                     NewImageFromImage(SubImage(src,
                         Rect(x, y, minInt(x + maxTileSize, w),
                              minInt(y + maxTileSize, h))))))

\* the outer loop, for y := y; y < h; y += maxTileSize
RECURSIVE tileRows(_, _, _, _, _)
tileRows(src, w, h, y, st) ==
    IF st.panicked \/ ~(y < h) THEN st
    ELSE tileRows(src, w, h, y + maxTileSize, tileColumns(src, w, h, y, 0, st))

\* the *TiledImage of the corrected image src, unless the slicing panics
sliceTiles(src) ==
    LET st == tileRows(src, Dx(src.Rect), Dy(src.Rect), 0, Sliced(<<>>, FALSE))
    IN  IF st.panicked THEN Panics
        ELSE [tiles       |-> st.tiles,
              totalWidth  |-> Dx(src.Rect),
              totalHeight |-> Dy(src.Rect)]

(***************************************************************************)
(* Errors and images.                                                      *)
(***************************************************************************)
\* Go's nil error
nil == [kind |-> "nil", arg |-> 0]
\* loadTiledEbitenImage's error: "unable to open file p" / "unable to decode image p"
LoadError(path) == [kind |-> "unable to load", arg |-> path]
\* LoadCurrentSlide's error: "invalid currentIndex i"
IndexError(i) == [kind |-> "invalid currentIndex", arg |-> i]

\* a *TiledImage: the decoded image of the photo at path
TiledImage(path) == [photo |-> path]

(***************************************************************************)
(* The controller's mutable fields, with the clock and the call trace, as  *)
(* one record: the methods below take it and return it changed.            *)
(***************************************************************************)
Game ==
    [currentIndex       |-> currentIndex,
     currentTiledImages |-> currentTiledImages,
     loadingError       |-> loadingError,
     switchTime         |-> switchTime,
     dateOverlay        |-> gDateOverlay,
     paused             |-> paused,
     now                |-> now,
     trace              |-> trace,
     handled            |-> <<>>,    \* the events handled in this tick, in order
     opened             |-> {},      \* the files opened in this step
     panicked           |-> FALSE]   \* whether a panic is unwinding the goroutine

\* tile.Dispose() on every tile of image t, as one event of the trace
Dispose(t) == [op |-> "Dispose", photo |-> t.photo, ok |-> TRUE, resident |-> 0]

\* freeSlideImages disposing of nothing
freeSlideImagesKeeps(g) == g

\* internal: dispose of any existing TiledImages from the current slide
freeSlideImages(g) ==
    IF Len(g.currentTiledImages) = 0 THEN g
    ELSE [g EXCEPT
            !.trace = g.trace \o [k \in 1..Len(g.currentTiledImages) |->
                                     Dispose(g.currentTiledImages[k])],
            !.currentTiledImages = <<>>]

\* what os.Open and image.Decode make of a file: an error, or the image
\* decoded
Unreadable == [err |-> "unable to open or decode"]
IsUnreadable(f) == "err" \in DOMAIN f

\* the images the files of the catalog decode to: a pixel at the origin,
\* as of a JPEG, and a pixel one row down, as of the first frame of a GIF
Frames == {DecodedFrame(0, 0, 1, 1), DecodedFrame(0, 1, 1, 1)}

\* loadTiledEbitenImage(p), files[path] being what the file at path gives
\* when it is opened and decoded: fails when that is an error; else orients
\* the image (the photos of the catalog are upright, Orientation 1) and
\* slices it, and either the slicing panics or it yields the photo's
\* TiledImage
loadTiledEbitenImage(path, files) ==
    IF IsUnreadable(files[path])
    THEN [tiled |-> TiledImage(0), err |-> LoadError(path)]
    ELSE IF IsPanic(sliceTiles(applyEXIFOrientation(files[path], 1)))
    THEN Panics
    ELSE [tiled |-> TiledImage(path), err |-> nil]

\* the loader call as an event of the trace: the photo, whether the load
\* succeeded, and how many TiledImages the game held when the call was made
LoadCall(g, path, files) ==
    [op |-> "load", photo |-> path, ok |-> ~IsUnreadable(files[path]),
     resident |-> Len(g.currentTiledImages)]

\* g with the loader call on path added to its trace
called(g, path, files) ==
    [g EXCEPT !.trace = Append(g.trace, LoadCall(g, path, files)),
              !.opened = @ \cup {path}]

\* the loader call on path panicking: the goroutine unwinds, through
\* LoadCurrentSlide and every caller, none of which recovers
unwinding(g, path) ==
    [g EXCEPT !.panicked = TRUE,
              !.opened = @ \cup {path},
              !.trace = Append(g.trace, [op |-> "panic", photo |-> path, ok |-> FALSE,
                                         resident |-> Len(g.currentTiledImages)])]

\* the loop keeping, on an error, the images loaded so far
RECURSIVE loadLoopKeepsPartial(_, _, _, _, _)
loadLoopKeepsPartial(g, ps, k, newImages, files) ==
    IF k > Len(ps)
    THEN [g |-> [g EXCEPT !.currentTiledImages = newImages], err |-> nil]
    ELSE LET r == loadTiledEbitenImage(ps[k].FilePath, files)
         IN  IF IsPanic(r) THEN [g |-> unwinding(g, ps[k].FilePath), err |-> nil]
             ELSE IF r.err # nil
             THEN [g |-> [called(g, ps[k].FilePath, files) EXCEPT
                             !.currentTiledImages = newImages],
                   err |-> r.err]
             ELSE loadLoopKeepsPartial(called(g, ps[k].FilePath, files), ps, k + 1,
                                       Append(newImages, r.tiled), files)

\* the range loop of LoadCurrentSlide over slide.Photos, from its k-th photo
\* (1-based): returns on the first error, dropping newImages, and is left
\* at once by a panic of the loader
RECURSIVE loadLoop(_, _, _, _, _)
loadLoop(g, ps, k, newImages, files) ==
    IF k > Len(ps)
    THEN [g |-> [g EXCEPT !.currentTiledImages = newImages], err |-> nil]
    ELSE LET r == loadTiledEbitenImage(ps[k].FilePath, files)
         IN  IF IsPanic(r) THEN [g |-> unwinding(g, ps[k].FilePath), err |-> nil]
             ELSE IF r.err # nil
             THEN [g |-> called(g, ps[k].FilePath, files), err |-> r.err]
             ELSE loadLoop(called(g, ps[k].FilePath, files), ps, k + 1,
                           Append(newImages, r.tiled), files)

\* LoadCurrentSlide loads up to two TiledImages for the current slide; the
\* decode takes d units of the clock
\* r is what the loop returned
took(r, d) == [g |-> [r.g EXCEPT !.now = r.g.now + d], err |-> r.err]

LoadCurrentSlide(g, files, d) ==
    IF g.currentIndex < 0 \/ g.currentIndex >= Len(slides)
    THEN [g |-> g, err |-> IndexError(g.currentIndex)]
    ELSE took(loadLoop(freeSlideImages(g), slides[g.currentIndex + 1].Photos,
                       1, <<>>, files), d)

SetLoadingError(g, err) == [g EXCEPT !.loadingError = err]

\* g.currentIndex = i, as the first statement of a slide change: the trace
\* starts over
moved(g, i) == [g EXCEPT !.currentIndex = i, !.trace = <<>>]

\* internal: move to the next slide
\* the tail of advanceSlide never clearing an earlier error
reloadedKeepsError(r) ==
    [r.g EXCEPT !.loadingError = IF r.err # nil THEN r.err ELSE r.g.loadingError,
                !.switchTime = r.g.now + interval]

\* the tail of advanceSlide leaving the switch time alone
reloadedKeepsSwitchTime(r) ==
    [r.g EXCEPT !.loadingError = IF r.err # nil THEN r.err ELSE nil]

\* the tail of advanceSlide setting the deadline to the clock itself
reloadedAtClock(r) ==
    [r.g EXCEPT !.loadingError = IF r.err # nil THEN r.err ELSE nil,
                !.switchTime = r.g.now]

\* the tail of advanceSlide, r being what LoadCurrentSlide returned: record
\* or clear the error, then reset the switch time
reloaded(r) ==
    [r.g EXCEPT !.loadingError = IF r.err # nil THEN r.err ELSE nil,
                !.switchTime = r.g.now + interval]

\* the tail of advanceSlide, which a panic in LoadCurrentSlide skips
afterLoad(r) == IF r.g.panicked THEN r.g ELSE reloaded(r)

\* advanceSlide without the modulus
advanceSlideNoWrap(g, files, d) ==
    afterLoad(LoadCurrentSlide(
        freeSlideImages(moved(g, g.currentIndex + 1)),
        files, d))

\* advanceSlide dropping the error of the load
advanceSlideDropsError(g, files, d) ==
    [afterLoad(LoadCurrentSlide(
        freeSlideImages(moved(g, (g.currentIndex + 1) % Len(slides))),
        files, d)) EXCEPT !.loadingError = nil]

advanceSlide(g, files, d) ==
    afterLoad(LoadCurrentSlide(
        freeSlideImages(moved(g, (g.currentIndex + 1) % Len(slides))),
        files, d))

(***************************************************************************)
(* Remote commands in the controller.  The repository's entry point hands  *)
(* the channel to the game (SetRemoteCommandChan), and its design document *)
(* gives the handling: Right advances, Left retreats with wraparound,      *)
(* Select toggles the paused flag (the deadline restarts on resume), and   *)
(* every tick drains the channel without blocking before it looks at the   *)
(* deadline, which is ignored while paused.                                *)
(***************************************************************************)
\* Left: move to the previous slide, wrapping from 0 to the last
retreatSlide(g, files, d) ==
    afterLoad(LoadCurrentSlide(
        freeSlideImages(moved(g, (g.currentIndex - 1 + Len(slides)) % Len(slides))),
        files, d))

\* Select: toggle paused; index and images untouched
togglePause(g) ==
    IF g.paused
    THEN [g EXCEPT !.paused = FALSE, !.switchTime = g.now + interval]
    ELSE [g EXCEPT !.paused = TRUE]

\* g having taken cmd out of the channel
taken(g, cmd) == [g EXCEPT !.handled = Append(@, cmd)]

handleRemoteCommand(g, cmd, files, d) ==
    CASE cmd = RemoteLeft   -> retreatSlide(taken(g, cmd), files, d)
      [] cmd = RemoteRight  -> advanceSlide(taken(g, cmd), files, d)
      [] cmd = RemoteSelect -> togglePause(taken(g, cmd))
      [] OTHER              -> taken(g, cmd)

\* the drain taking the newest event first
RECURSIVE drainNewestFirst(_, _, _, _)
drainNewestFirst(g, q, files, d) ==
    IF q = <<>> \/ g.panicked THEN g
    ELSE drainNewestFirst(handleRemoteCommand(g, q[Len(q)], files, d),
                          SubSeq(q, 1, Len(q) - 1), files, d)

\* process every event waiting in the channel, in channel order; a panic
\* leaves the loop
RECURSIVE drainRemoteEvents(_, _, _, _)
drainRemoteEvents(g, q, files, d) ==
    IF q = <<>> \/ g.panicked THEN g
    ELSE drainRemoteEvents(handleRemoteCommand(g, Head(q), files, d), Tail(q), files, d)

\* the timer looked at even while paused
timerArmedAlways(g) == TRUE

\* the timer is looked at only while not paused
timerArmed(g) == ~g.paused

(***************************************************************************)
(* The render loop (ebiten.RunGame): each frame calls Update and, unless   *)
(* Update returned an error, Draw.                                         *)
(***************************************************************************)
\* the file paths of the catalog
Paths == { photos[i].FilePath : i \in 1..Len(photos) }

\* every file of the catalog a JPEG that decodes
Readable == [p \in Paths |-> DecodedFrame(0, 0, 1, 1)]

\* what the files of the catalog give, each on its own, when they are
\* opened and decoded, in a step that opens the files ps at most: what the
\* other files would give is of no account, and is left out of the choice
FilesOf(ps) ==
    { [p \in Paths |-> IF p \in ps THEN f[p] ELSE DecodedFrame(0, 0, 1, 1)] :
        f \in [ps -> {Unreadable} \cup Frames] }

\* the time one slide load can take: none to speak of, or the longest
LoadTimes == {0, MaxLoadTime}

\* the timer firing only while a slide is displayed
timerCheckWhileReady(g, files, d) ==
    IF /\ g.loadingError = nil
       /\ g.currentTiledImages # <<>>
       /\ g.now > g.switchTime
    THEN advanceSlide(g, files, d)
    ELSE g

\* the timer firing already at the deadline itself
timerCheckAtDeadline(g, files, d) ==
    IF g.now >= g.switchTime
    THEN advanceSlide(g, files, d)
    ELSE g

\* If it's time to switch to the next slide, do so
timerCheck(g, files, d) ==
    IF g.now > g.switchTime
    THEN advanceSlide(g, files, d)
    ELSE g

\* the designed body of Update after the exit check: the events waiting in
\* the channel, then the deadline unless paused
tick(g, q, files, d) ==
    LET drained == drainRemoteEvents(g, q, files, d)
    IN  IF ~drained.panicked /\ timerArmed(drained)
        THEN timerCheck(drained, files, d)
        ELSE drained

\* the errors Update returns: on Escape, and at its end
ExitRequested == [kind |-> "exit requested", arg |-> 0]

\* Update returning the load error it has just recorded
updateReturnsLoadingError(g) == g.loadingError

updateReturn(g) == nil

\* the game's fields, the clock and the trace become those of g
Becomes(g) ==
    /\ currentIndex' = g.currentIndex
    /\ currentTiledImages' = g.currentTiledImages
    /\ loadingError' = g.loadingError
    /\ switchTime' = g.switchTime
    /\ paused' = g.paused
    /\ now' = g.now
    /\ trace' = g.trace

\* the text drawDebugString puts on the screen, the text of the error left out
DebugString(msg) == [kind |-> msg, images |-> <<>>]

\* the call drawSlide(screen, slide, tiledImages, dateOverlay)
SlideDrawn(slide, tiledImages, dateOverlay) ==
    [kind |-> "drawSlide", slide |-> slide, images |-> tiledImages,
     dateOverlay |-> dateOverlay]

\* a Draw with only its first check: drawSlide whenever there are slides
drawnUnchecked(g) ==
    IF Len(slides) = 0 THEN DebugString("No slides (photos) found.")
    ELSE SlideDrawn(slides[g.currentIndex + 1], g.currentTiledImages, g.dateOverlay)

\* what Draw renders: a message, or the images handed to drawSlide
drawn(g) ==
    IF Len(slides) = 0 THEN DebugString("No slides (photos) found.")
    ELSE IF g.loadingError # nil THEN DebugString("Error loading image(s)")
    ELSE IF Len(g.currentTiledImages) = 0 THEN DebugString("Loading slide...")
    ELSE SlideDrawn(slides[g.currentIndex + 1], g.currentTiledImages, g.dateOverlay)

\* Update looking at Escape only after the deadline
UpdateExitChecksLast ==
    /\ pc = "run"
    /\ escPressed' = TRUE
    /\ \E d \in LoadTimes :
         \E files \in FilesOf(timerCheck(Game, Readable, d).opened) :
         \E g \in {timerCheck(Game, files, d)} :
             /\ g.now <= MaxTime
             /\ Becomes(g)
    /\ pc' = "exited"
    /\ UNCHANGED <<photos, slides, interval, gDateOverlay, remoteEvents, ticked, screen>>
    /\ UNCHANGED otherVars

\* Update on a tick where Escape was just pressed: RunGame returns the error
\* and main ends the process
UpdateExit ==
    /\ pc = "run"
    /\ escPressed' = TRUE
    /\ pc' = "exited"
    /\ UNCHANGED <<photos, slides, currentIndex, currentTiledImages, loadingError,
                   interval, gDateOverlay, switchTime, paused, remoteEvents, ticked, now, screen,
                   trace>>
    /\ UNCHANGED otherVars

\* Update on any other tick: files is what the files give when opened and
\* decoded during this tick (which opens no other file than it opens when
\* every file is readable), d the time a load takes; a panic of the loader,
\* recovered nowhere, ends the process
Update ==
    /\ pc = "run"
    /\ escPressed' = FALSE
    /\ \E d \in LoadTimes :
         \E files \in FilesOf(timerCheck(Game, Readable, d).opened) :
         \E g \in {timerCheck(Game, files, d)} :
             /\ g.now <= MaxTime
             /\ Becomes(g)
             /\ pc' = IF g.panicked THEN "panic"
                      ELSE IF updateReturn(g) = nil THEN "run" ELSE "exited"
    /\ ticked' = TRUE
    /\ UNCHANGED <<photos, slides, interval, gDateOverlay, remoteEvents, screen>>
    /\ UNCHANGED otherVars

\* Update as designed, on a tick without Escape: it takes every event waiting
\* in the channel, then looks at the deadline unless paused; received gets
\* the events it took, in the order it handled them; a panic of the loader
\* ends the process with the events not yet taken still in the channel
UpdateRemote ==
    /\ pc = "run"
    /\ escPressed' = FALSE
    /\ \E d \in LoadTimes :
         \E files \in FilesOf(tick(Game, remoteEvents, Readable, d).opened) :
         \E g \in {tick(Game, remoteEvents, files, d)} :
             /\ g.now <= MaxTime
             /\ Becomes(g)
             /\ received' = received \o g.handled
             /\ remoteEvents' = SubSeq(remoteEvents, Len(g.handled) + 1,
                                       Len(remoteEvents))
             /\ pc' = IF g.panicked THEN "panic"
                      ELSE IF updateReturn(g) = nil THEN "run" ELSE "exited"
    /\ ticked' = TRUE
    /\ UNCHANGED <<photos, slides, interval, gDateOverlay, screen>>
    /\ UNCHANGED <<stdout, scanned, listener, pending>>
    /\ UNCHANGED <<loaderVars, cacheVars, syncVars, drawVars>>

\* Draw, the loop's other callback: after an Update ebiten calls it once,
\* again, or not at all before the next Update
Draw ==
    /\ pc = "run"
    /\ screen' = drawn(Game)
    /\ ticked' = FALSE
    /\ UNCHANGED <<pc, photos, slides, currentIndex, currentTiledImages, loadingError,
                   interval, gDateOverlay, switchTime, paused, remoteEvents, escPressed, now, trace>>
    /\ UNCHANGED otherVars

\* the wall clock moves on
Tick ==
    /\ pc \in {"constructed", "loaded", "run"}
    /\ now < MaxTime
    /\ now' = now + 1
    /\ UNCHANGED <<pc, photos, slides, currentIndex, currentTiledImages, loadingError,
                   interval, gDateOverlay, switchTime, paused, remoteEvents, escPressed, ticked, screen, trace>>
    /\ UNCHANGED otherVars

(***************************************************************************)
(* The CEC listener goroutine.                                             *)
(***************************************************************************)
\* key codes of the user-control-pressed lines cec-client prints
KeyCodes == {"00", "01", "03", "04"}

cecUserControlMap(keyCode) ==
    CASE keyCode = "03" -> RemoteLeft
      [] keyCode = "04" -> RemoteRight
      [] keyCode = "00" -> RemoteSelect
      [] OTHER          -> RemoteUnknown

(***************************************************************************)
(* main (cmd/openframe/main.go).                                           *)
(***************************************************************************)
\* "No photos found. Exiting."
MainNoPhotos ==
    /\ pc = "main"
    /\ Len(photos) = 0
    /\ pc' = "returned"
    /\ UNCHANGED <<photos, slides, currentIndex, currentTiledImages, loadingError,
                   interval, gDateOverlay, switchTime, paused, remoteEvents, escPressed, ticked, now,
                   screen, trace>>
    /\ UNCHANGED otherVars

\* main going on to build slides whatever the catalog holds
MainBuildSlidesAnyCatalog ==
    /\ pc = "main"
    /\ slides' = BuildSlidesFromPhotos(photos)
    /\ pc' = "built"
    /\ UNCHANGED <<photos, currentIndex, currentTiledImages, loadingError,
                   interval, gDateOverlay, switchTime, paused, remoteEvents, escPressed, ticked, now,
                   screen, trace>>
    /\ UNCHANGED otherVars

\* 4. Build slides
MainBuildSlides ==
    /\ pc = "main"
    /\ Len(photos) # 0
    /\ slides' = BuildSlidesFromPhotos(photos)
    /\ pc' = "built"
    /\ UNCHANGED <<photos, currentIndex, currentTiledImages, loadingError,
                   interval, gDateOverlay, switchTime, paused, remoteEvents, escPressed, ticked, now,
                   screen, trace>>
    /\ UNCHANGED otherVars

\* 5. Create the slideshow game
NewSlideshowGame ==
    /\ pc = "built"
    /\ currentIndex' = 0
    /\ currentTiledImages' = <<>>
    /\ loadingError' = nil
    /\ paused' = FALSE
    /\ switchTime' = now + interval
    /\ pc' = "constructed"
    /\ UNCHANGED <<photos, slides, interval, gDateOverlay, remoteEvents, escPressed, ticked, now, screen, trace>>
    /\ UNCHANGED otherVars

\* 6. Load the first slide; a panic of the loader ends the process
MainLoadFirst ==
    /\ pc = "constructed"
    /\ \E d \in LoadTimes :
         \E files \in FilesOf(LoadCurrentSlide(Game, Readable, d).g.opened) :
         \E r \in {LoadCurrentSlide(Game, files, d)} :
         \E g \in {IF r.err # nil THEN SetLoadingError(r.g, r.err) ELSE r.g} :
             /\ g.now <= MaxTime
             /\ Becomes(g)
             /\ pc' = IF g.panicked THEN "panic" ELSE "loaded"
    /\ UNCHANGED <<photos, slides, interval, gDateOverlay, remoteEvents, escPressed, ticked, screen>>
    /\ UNCHANGED otherVars

\* 7, 8, 10. Make the channel, start the listener, give the channel to the
\* game and run the game loop
MainRunGame ==
    /\ pc = "loaded"
    /\ remoteEvents' = <<>>
    /\ pc' = "run"
    /\ UNCHANGED <<photos, slides, currentIndex, currentTiledImages, loadingError,
                   interval, gDateOverlay, switchTime, paused, escPressed, ticked, now, screen, trace>>
    /\ UNCHANGED otherVars

(***************************************************************************)
(* The slide composer on its own, over every input sequence.               *)
(***************************************************************************)
ComposeInit ==
    /\ pc = "compose"
    /\ photos \in ComposerInputs
    /\ interval = 0
    /\ gDateOverlay = FALSE
    /\ slides = <<>>
    /\ currentIndex = 0
    /\ currentTiledImages = <<>>
    /\ loadingError = nil
    /\ switchTime = 0
    /\ paused = FALSE
    /\ remoteEvents = <<>>
    /\ escPressed = FALSE
    /\ ticked = FALSE
    /\ now = 0
    /\ screen = DebugString("")
    /\ trace = <<>>
    /\ OthersIdle

Compose ==
    /\ pc = "compose"
    /\ slides' = BuildSlidesFromPhotos(photos)
    /\ pc' = "composed"
    /\ UNCHANGED <<photos, currentIndex, currentTiledImages, loadingError,
                   interval, gDateOverlay, switchTime, paused, remoteEvents, escPressed, ticked, now,
                   screen, trace>>
    /\ UNCHANGED otherVars

ComposeNext == Compose

SpecCompose == ComposeInit /\ [][ComposeNext]_vars

\* the slideshow's variables while no slideshow runs
GameIdle ==
    /\ photos = <<>>
    /\ interval = 0
    /\ slides = <<>>
    /\ currentIndex = 0
    /\ currentTiledImages = <<>>
    /\ loadingError = nil
    /\ switchTime = 0
    /\ paused = FALSE
    /\ remoteEvents = <<>>
    /\ escPressed = FALSE
    /\ ticked = FALSE
    /\ now = 0
    /\ screen = DebugString("")
    /\ trace = <<>>

(***************************************************************************)
(* The image loader on its own (tile.go), from the decoded image on.       *)
(***************************************************************************)
LoaderInit ==
    /\ pc = "decoded"
    /\ decoded \in DecodedImages
    /\ orientation \in Orientations
    /\ maxTileSize \in TileSizes
    /\ corrected = <<>>
    /\ tiled = <<>>
    /\ GameIdle
    /\ gDateOverlay = FALSE
    /\ RemoteIdle
    /\ CacheIdle
    /\ SyncIdle
    /\ DrawIdle

\* loadTiledEbitenImage from the decoded image on: orient, then slice; a
\* panic ends the program
LoadTiled ==
    /\ pc = "decoded"
    /\ corrected' = applyEXIFOrientation(decoded, orientation)
    /\ tiled' = sliceTiles(corrected')
    /\ pc' = IF IsPanic(tiled') THEN "panic" ELSE "tiled"
    /\ UNCHANGED <<decoded, orientation, maxTileSize>>
    /\ UNCHANGED <<gameVars, remoteVars, cacheVars, syncVars, drawVars>>

LoaderNext == LoadTiled

SpecLoader == LoaderInit /\ [][LoaderNext]_vars

(***************************************************************************)
(* The CEC listener goroutine on its own (traffic_listener.go), with the   *)
(* channel main makes and a receiver taking the events out one at a time.  *)
(***************************************************************************)
\* the lines cec-client can print: a user-control-pressed line is given by
\* its key code as printed (two hex digits of either case), any other line
\* by ""
Lines == {"", "00", "03", "04", "0a"}

\* strings.ToUpper on a key code
ToUpper(keyCode) == IF keyCode = "0a" THEN "0A" ELSE keyCode

\* n presses: Left, Right, Select and so on in turn
Presses(n) ==
    [i \in 1..n |-> IF i % 3 = 1 THEN "03" ELSE IF i % 3 = 2 THEN "04" ELSE "00"]

\* the outputs of cec-client: every sequence of up to MaxLines lines, and
\* one of Left, Right, Select presses in turn, long enough to fill the
\* channel and block the listener
Stdouts ==
    UNION { [1..n -> Lines] : n \in 0..MaxLines }
    \cup { Presses(RemoteEventsCap + MaxLines) }

\* the send guard letting every value through
sendableAlways(v) == TRUE

\* if cmdVal != RemoteUnknown
sendable(v) == v # RemoteUnknown

\* the channel as a stack: the value sent goes to the front
chanSendFront(q, v) == <<v>> \o q

\* remoteEvents <- cmdVal, on a channel with room
chanSend(q, v) == Append(q, v)

RemoteInit ==
    /\ pc = "listen"
    /\ stdout \in Stdouts
    /\ scanned = 0
    /\ listener = "scan"
    /\ pending = 0
    /\ received = <<>>
    /\ GameIdle
    /\ gDateOverlay = FALSE
    /\ LoaderIdle
    /\ CacheIdle
    /\ SyncIdle
    /\ DrawIdle

\* one pass of the scanner loop up to the send: the line is matched, its key
\* code upper-cased and looked up
ListenerRead ==
    /\ pc \in {"listen", "run"}
    /\ listener = "scan"
    /\ scanned < Len(stdout)
    /\ scanned' = scanned + 1
    /\ \E keyCode \in {ToUpper(stdout[scanned + 1])} :
         IF stdout[scanned + 1] # "" /\ sendable(cecUserControlMap(keyCode))
         THEN listener' = "send" /\ pending' = cecUserControlMap(keyCode)
         ELSE listener' = "scan" /\ pending' = pending
    /\ UNCHANGED <<pc, stdout, received, gameVars, loaderVars, cacheVars,
                   syncVars, drawVars>>

\* a send that does not wait: on a full channel the event is dropped
ListenerSendDropsWhenFull ==
    /\ pc \in {"listen", "run"}
    /\ listener = "send"
    /\ remoteEvents' = IF Len(remoteEvents) < RemoteEventsCap
                       THEN chanSend(remoteEvents, pending)
                       ELSE remoteEvents
    /\ listener' = "scan"
    /\ UNCHANGED <<pc, stdout, scanned, pending, received, frameVars,
                   loaderVars, cacheVars, syncVars, drawVars>>

\* the send: it waits while the channel holds RemoteEventsCap events
ListenerSend ==
    /\ pc \in {"listen", "run"}
    /\ listener = "send"
    /\ Len(remoteEvents) < RemoteEventsCap
    /\ remoteEvents' = chanSend(remoteEvents, pending)
    /\ listener' = "scan"
    /\ UNCHANGED <<pc, stdout, scanned, pending, received, frameVars,
                   loaderVars, cacheVars, syncVars, drawVars>>

\* scanner.Scan() returns false at the end of the output: the goroutine exits
ListenerExit ==
    /\ pc \in {"listen", "run"}
    /\ listener = "scan"
    /\ scanned = Len(stdout)
    /\ listener' = "exit"
    /\ UNCHANGED <<pc, stdout, scanned, pending, received, gameVars,
                   loaderVars, cacheVars, syncVars, drawVars>>

\* the game takes the event at the head of the channel
Receive ==
    /\ pc \in {"listen", "run"}
    /\ remoteEvents # <<>>
    /\ received' = Append(received, Head(remoteEvents))
    /\ remoteEvents' = Tail(remoteEvents)
    /\ UNCHANGED <<pc, stdout, scanned, listener, pending, frameVars,
                   loaderVars, cacheVars, syncVars, drawVars>>

RemoteNext ==
    \/ ListenerRead
    \/ ListenerSend
    \/ ListenerExit
    \/ Receive

SpecRemote == RemoteInit /\ [][RemoteNext]_vars

(***************************************************************************)
(* The photo metadata cache (package photo): get, set and prune on the     *)
(* cache loadMetadataCache returned, or on the nil cache.                  *)
(***************************************************************************)
\* a time.Time: whole seconds since the Unix epoch and nanoseconds within
Time(sec, nsec) == [sec |-> sec, nsec |-> nsec]

Times == { Time(sec, nsec) : sec \in 0..MaxSec, nsec \in 0..MaxNsec }

\* t.UnixNano(), for times an int64 of nanoseconds can hold
UnixNano(t) == t.sec * NanosPerSecond + t.nsec

\* the files looked up in the cache
CachePaths == {"a.jpg", "b.png"}

\* Photo{}
ZeroPhoto ==
    [FilePath |-> "", TakenTime |-> Time(0, 0), Width |-> 0, Height |-> 0,
     Orientation |-> 0]

\* the metadata read from a file of the given path: a landscape photo with
\* no rotation or a rotated one taken later
ReadPhotos(path) ==
    { [FilePath |-> path, TakenTime |-> Time(0, 1), Width |-> 4, Height |-> 3,
       Orientation |-> 1],
      [FilePath |-> path, TakenTime |-> Time(1, 0), Width |-> 3, Height |-> 2,
       Orientation |-> 6] }

\* no entry for any path
NoEntries == [p \in {} |-> ZeroPhoto]

\* a nil *metadataCache
NilCache == [isNil |-> TRUE, Entries |-> NoEntries]

newMetadataCache == [isNil |-> FALSE, Entries |-> NoEntries]

\* the result of get when nothing was looked up yet
NoLookup == [path |-> "", modTime |-> Time(0, 0), photo |-> ZeroPhoto, ok |-> FALSE]

\* get answering from the entry whatever modification time it was stored with
getAnyModTime(c, path, modTime) ==
    IF c.isNil \/ path \notin DOMAIN c.Entries
    THEN [photo |-> ZeroPhoto, ok |-> FALSE]
    ELSE [photo |-> [FilePath |-> path,
                     TakenTime |-> c.Entries[path].TakenTime,
                     Width |-> c.Entries[path].Width,
                     Height |-> c.Entries[path].Height,
                     Orientation |-> c.Entries[path].Orientation],
          ok |-> TRUE]

get(c, path, modTime) ==
    IF c.isNil
    THEN [photo |-> ZeroPhoto, ok |-> FALSE]
    ELSE IF path \notin DOMAIN c.Entries
            \/ c.Entries[path].ModTime # UnixNano(modTime)
    THEN [photo |-> ZeroPhoto, ok |-> FALSE]
    ELSE [photo |-> [FilePath |-> path,
                     TakenTime |-> c.Entries[path].TakenTime,
                     Width |-> c.Entries[path].Width,
                     Height |-> c.Entries[path].Height,
                     Orientation |-> c.Entries[path].Orientation],
          ok |-> TRUE]

set(c, path, modTime, photo) ==
    IF c.isNil
    THEN c
    ELSE [c EXCEPT !.Entries =
            [p \in DOMAIN @ \cup {path} |->
                IF p = path
                THEN [ModTime |-> UnixNano(modTime),
                      TakenTime |-> photo.TakenTime,
                      Width |-> photo.Width,
                      Height |-> photo.Height,
                      Orientation |-> photo.Orientation]
                ELSE @[p]]]

\* prune: the cache without the entries of paths outside validPaths, and
\* whether any was deleted
prune(c, validPaths) ==
    IF c.isNil
    THEN [c |-> c, changed |-> FALSE]
    ELSE [c |-> [c EXCEPT !.Entries = [p \in DOMAIN @ \cap validPaths |-> @[p]]],
          changed |-> DOMAIN c.Entries \ validPaths # {}]

CacheInit ==
    /\ pc = "cache"
    /\ cache \in {NilCache, newMetadataCache}
    /\ written = NoEntries
    /\ lookup = NoLookup
    /\ GameIdle
    /\ gDateOverlay = FALSE
    /\ LoaderIdle
    /\ RemoteIdle
    /\ SyncIdle
    /\ DrawIdle

\* cache.set(path, modTime, photo); written keeps, for each path with an
\* entry, the modification time and the photo of the last set
CacheSet ==
    /\ pc = "cache"
    /\ \E path \in CachePaths, modTime \in Times :
       \E photo \in ReadPhotos(path) :
         /\ cache' = set(cache, path, modTime, photo)
         /\ written' =
              IF cache.isNil
              THEN written
              ELSE [p \in DOMAIN written \cup {path} |->
                      IF p = path
                      THEN [modTime |-> modTime, photo |-> photo]
                      ELSE written[p]]
    /\ lookup' = NoLookup
    /\ UNCHANGED <<pc, gameVars, loaderVars, remoteVars,
                   syncVars, drawVars>>

\* cache.prune(validPaths)
CachePrune ==
    /\ pc = "cache"
    /\ \E validPaths \in SUBSET CachePaths :
         /\ cache' = prune(cache, validPaths).c
         /\ written' = [p \in DOMAIN written \cap validPaths |-> written[p]]
    /\ lookup' = NoLookup
    /\ UNCHANGED <<pc, gameVars, loaderVars, remoteVars,
                   syncVars, drawVars>>

\* cache.get(path, modTime)
CacheGet ==
    /\ pc = "cache"
    /\ \E path \in CachePaths, modTime \in Times :
       \E r \in {get(cache, path, modTime)} :
         lookup' = [path |-> path, modTime |-> modTime, photo |-> r.photo,
                    ok |-> r.ok]
    /\ UNCHANGED <<pc, cache, written, gameVars, loaderVars, remoteVars,
                   syncVars, drawVars>>

CacheNext ==
    \/ CacheSet
    \/ CachePrune
    \/ CacheGet

SpecCache == CacheInit /\ [][CacheNext]_vars

(***************************************************************************)
(* The sync script (openframe-sync.sh), run once at some time of day.      *)
(* A shell string is the sequence of its characters.                       *)
(***************************************************************************)
\* the decimal digit n as a character, and back
DigitChar(n) ==
    CASE n = 0 -> "0" [] n = 1 -> "1" [] n = 2 -> "2" [] n = 3 -> "3"
      [] n = 4 -> "4" [] n = 5 -> "5" [] n = 6 -> "6" [] n = 7 -> "7"
      [] n = 8 -> "8" [] n = 9 -> "9"

DigitValue(c) == CHOOSE n \in 0..9 : DigitChar(n) = c

\* n printed with two digits, as date +%H and +%M print
TwoDigits(n) == <<DigitChar(n \div 10), DigitChar(n % 10)>>

\* the string HH:MM
HHMM(hh, mm) == TwoDigits(hh) \o <<":">> \o TwoDigits(mm)

\* ${VAR:-default}: the default when VAR is unset or empty
OrDefault(value, default) == IF value = <<>> THEN default ELSE value

\* ${hhmm%%:*}: hhmm without its longest suffix that starts with a colon
BeforeFirstColon(hhmm) ==
    IF \E i \in 1..Len(hhmm) : hhmm[i] = ":"
    THEN SubSeq(hhmm, 1, (CHOOSE i \in 1..Len(hhmm) :
                            /\ hhmm[i] = ":"
                            /\ \A j \in 1..(i - 1) : hhmm[j] # ":") - 1)
    ELSE hhmm

\* ${hhmm##*:}: hhmm without its longest prefix that ends with a colon
AfterLastColon(hhmm) ==
    IF \E i \in 1..Len(hhmm) : hhmm[i] = ":"
    THEN SubSeq(hhmm, (CHOOSE i \in 1..Len(hhmm) :
                         /\ hhmm[i] = ":"
                         /\ \A j \in (i + 1)..Len(hhmm) : hhmm[j] # ":") + 1,
                Len(hhmm))
    ELSE hhmm

\* what an arithmetic expansion gives: a number, or the error "invalid
\* integer constant"
Number(n) == [err |-> "", value |-> n]
InvalidInteger == [err |-> "invalid integer constant", value |-> 0]

\* the value in base 10 of a string of digits, 0 for the empty string
RECURSIVE DigitsValue(_)
DigitsValue(digits) ==
    IF digits = <<>> THEN 0
    ELSE DigitsValue(SubSeq(digits, 1, Len(digits) - 1)) * 10
         + DigitValue(digits[Len(digits)])

\* $((10#digits)): the digits read in base 10; with no digit after 10# the
\* expansion fails
Base10(digits) ==
    IF digits = <<>> THEN InvalidInteger ELSE Number(DigitsValue(digits))

\* parse_hhmm: $((10#${hh} * 60 + 10#${mm})), which fails when hh or mm is
\* empty
parse_hhmm(hhmm) ==
    IF Base10(BeforeFirstColon(hhmm)) = InvalidInteger
       \/ Base10(AfterLastColon(hhmm)) = InvalidInteger
    THEN InvalidInteger
    ELSE Number(Base10(BeforeFirstColon(hhmm)).value * 60
                + Base10(AfterLastColon(hhmm)).value)

in_window(now_min, start_min, stop_min) ==
    IF start_min < stop_min
    THEN now_min >= start_min /\ now_min < stop_min
    ELSE now_min >= start_min \/ now_min < stop_min

\* the values the two variables are given: unset, a time of day, or (for
\* the start) a time without its hour, ":30"
StartSettings ==
    {<<>>, HHMM(0, 0), HHMM(6, 0), HHMM(20, 0), HHMM(23, 59), <<":">> \o TwoDigits(30)}
StopSettings == {<<>>, HHMM(6, 0), HHMM(20, 0), HHMM(23, 59)}

\* what date prints at each minute of the day
Clocks == { [H |-> TwoDigits(hh), M |-> TwoDigits(mm)] : hh \in 0..23, mm \in 0..59 }

SyncInit ==
    /\ pc = "sync"
    /\ env \in [START : StartSettings, STOP : StopSettings]
    /\ clock \in Clocks
    /\ commands = <<>>
    /\ GameIdle
    /\ gDateOverlay = FALSE
    /\ LoaderIdle
    /\ RemoteIdle
    /\ CacheIdle
    /\ DrawIdle

\* the script from its first line to its last; under set -e a failed
\* expansion ends it before any command is run
Sync ==
    /\ pc = "sync"
    /\ \E now_min \in {Base10(clock.H).value * 60 + Base10(clock.M).value},
          start_min \in {parse_hhmm(OrDefault(env.START, HHMM(6, 0)))},
          stop_min \in {parse_hhmm(OrDefault(env.STOP, HHMM(20, 0)))} :
         IF start_min = InvalidInteger \/ stop_min = InvalidInteger
         THEN commands' = <<>> /\ pc' = "aborted"
         ELSE /\ commands' =
                    IF in_window(now_min, start_min.value, stop_min.value)
                    THEN <<"systemctl --user start openframe.service">>
                    ELSE <<"systemctl --user stop openframe.service",
                           "echo standby 0 | cec-client -s -d 1">>
              /\ pc' = "synced"
    /\ UNCHANGED <<env, clock, gameVars, loaderVars, remoteVars, cacheVars, drawVars>>

SyncNext == Sync

SpecSync == SyncInit /\ [][SyncNext]_vars

(***************************************************************************)
(* The program: main, the render loop it runs and the listener goroutine   *)
(* it starts.  Update is the one of slideshow.go, which looks at Escape    *)
(* and at the deadline and leaves the channel alone.                       *)
(***************************************************************************)
\* what cec-client prints while the program runs: up to MaxQueued presses
GameStdouts == { Presses(n) : n \in 0..MaxQueued }

\* the state main starts from, but for the catalog and cec-client's output
Started ==
    /\ pc = "main"
    /\ slides = <<>>
    /\ currentIndex = 0
    /\ currentTiledImages = <<>>
    /\ loadingError = nil
    /\ switchTime = 0
    /\ paused = FALSE
    /\ remoteEvents = <<>>
    /\ escPressed = FALSE
    /\ ticked = FALSE
    /\ now = 0
    /\ screen = DebugString("")
    /\ trace = <<>>
    /\ scanned = 0
    /\ listener = "scan"
    /\ pending = 0
    /\ received = <<>>
    /\ LoaderIdle
    /\ CacheIdle
    /\ SyncIdle
    /\ DrawIdle

Init ==
    /\ photos \in Catalogs
    /\ interval \in {0, MaxInterval}
    /\ gDateOverlay \in BOOLEAN
    /\ stdout \in GameStdouts
    /\ Started

Next ==
    \/ MainNoPhotos
    \/ MainBuildSlides
    \/ NewSlideshowGame
    \/ MainLoadFirst
    \/ MainRunGame
    \/ UpdateExit
    \/ Update
    \/ Draw
    \/ Tick
    \/ ListenerRead
    \/ ListenerSend
    \/ ListenerExit

Spec == Init /\ [][Next]_vars

(***************************************************************************)
(* The program with the designed Update, which takes the remote events:    *)
(* the listener queues up to MaxDrained recognised presses.                *)
(***************************************************************************)
\* the key codes of Left, Right and Select
RecognisedKeyCodes == { k \in KeyCodes : sendable(cecUserControlMap(k)) }

\* cec-client printing MaxDrained presses of recognised keys
ControlStdouts == [1..MaxDrained -> RecognisedKeyCodes]

\* the catalogs of MaxCatalog photos that open with a landscape photo
ControlCatalogs == { c \in Catalogs : Len(c) = MaxCatalog /\ ~isPortrait(c[1]) }

ControlInit ==
    /\ photos \in ControlCatalogs
    /\ interval = MaxInterval
    /\ gDateOverlay = FALSE
    /\ stdout \in ControlStdouts
    /\ Started

ControlNext ==
    \/ MainBuildSlides
    \/ NewSlideshowGame
    \/ MainLoadFirst
    \/ MainRunGame
    \/ UpdateExit
    \/ UpdateRemote
    \/ Draw
    \/ Tick
    \/ ListenerRead
    \/ ListenerSend
    \/ ListenerExit

SpecControl == ControlInit /\ [][ControlNext]_vars

(***************************************************************************)
(* The program with more presses than the channel holds, and a receiver    *)
(* taking the events out of the channel one at a time, or not.             *)
(***************************************************************************)
\* the catalogs of MaxShown photos
BackpressureCatalogs == { c \in Catalogs : Len(c) = MaxShown }
\* the outputs of cec-client with more presses than the channel holds
BackpressureStdouts == { s \in Stdouts : Len(s) > RemoteEventsCap }

BackpressureInit ==
    /\ photos \in BackpressureCatalogs
    /\ interval \in {0, MaxInterval}
    /\ gDateOverlay = FALSE
    /\ stdout \in BackpressureStdouts
    /\ Started

BackpressureNext ==
    \/ MainBuildSlides
    \/ NewSlideshowGame
    \/ MainLoadFirst
    \/ MainRunGame
    \/ ListenerRead
    \/ ListenerSend
    \/ ListenerExit
    \/ Receive
    \/ Update
    \/ Draw

SpecBackpressure == BackpressureInit /\ [][BackpressureNext]_vars

(***************************************************************************)
(* drawSlide on its own (draw.go): float64 arithmetic (IEEE 754 binary64,  *)
(* round to nearest, ties to even), ebiten's GeoM, the two loops over the  *)
(* tiles and the date overlay.                                             *)
(*                                                                         *)
(* A natural number of any size is the sequence of its digits in base      *)
(* Limb, lowest digit first, without leading zeros: <<>> is 0.             *)
(***************************************************************************)
Abs(n) == IF n < 0 THEN 0 - n ELSE n

\* the number of bits of the digit d
RECURSIVE DigitBits(_)
DigitBits(d) == IF d = 0 THEN 0 ELSE 1 + DigitBits(d \div 2)

\* the base of the digits, small enough for a product of two digits and a
\* carry to stay an int of the model checker, and the bits of a digit
Limb == 2^14
LimbBits == DigitBits(Limb) - 1
\* the bits of the mantissa of a float64, the hidden one included
MantBits == 53

\* the digits of the int n >= 0
RECURSIVE NatOf(_)
NatOf(n) == IF n = 0 THEN <<>> ELSE <<n % Limb>> \o NatOf(n \div Limb)

\* s without its leading zeros
RECURSIVE NatTrim(_)
NatTrim(s) ==
    IF s = <<>> \/ s[Len(s)] # 0 THEN s ELSE NatTrim(SubSeq(s, 1, Len(s) - 1))

Digit(a, i) == IF i <= Len(a) THEN a[i] ELSE 0

\* the digits of a + b + carry from the i-th on
RECURSIVE NatAddFrom(_, _, _, _)
NatAddFrom(a, b, i, carry) ==
    IF i > Len(a) /\ i > Len(b)
    THEN IF carry = 0 THEN <<>> ELSE <<carry>>
    ELSE LET s == Digit(a, i) + Digit(b, i) + carry
         IN  <<s % Limb>> \o NatAddFrom(a, b, i + 1, s \div Limb)
NatAdd(a, b) == NatAddFrom(a, b, 1, 0)

\* the digits of a - b - borrow from the i-th on, for a >= b
RECURSIVE NatSubFrom(_, _, _, _)
NatSubFrom(a, b, i, borrow) ==
    IF i > Len(a) THEN <<>>
    ELSE LET s == a[i] - Digit(b, i) - borrow
         IN  IF s < 0
             THEN <<s + Limb>> \o NatSubFrom(a, b, i + 1, 1)
             ELSE <<s>> \o NatSubFrom(a, b, i + 1, 0)
NatSub(a, b) == NatTrim(NatSubFrom(a, b, 1, 0))

\* a < b, compared from the i-th digit down, for Len(a) = Len(b)
RECURSIVE NatLessFrom(_, _, _)
NatLessFrom(a, b, i) ==
    IF i = 0 THEN FALSE
    ELSE IF a[i] # b[i] THEN a[i] < b[i]
    ELSE NatLessFrom(a, b, i - 1)
NatLess(a, b) ==
    IF Len(a) # Len(b) THEN Len(a) < Len(b) ELSE NatLessFrom(a, b, Len(a))

\* the digits of a * d + carry from the i-th on, for a digit d
RECURSIVE NatMulDigitFrom(_, _, _, _)
NatMulDigitFrom(a, d, i, carry) ==
    IF i > Len(a)
    THEN IF carry = 0 THEN <<>> ELSE <<carry>>
    ELSE LET p == a[i] * d + carry
         IN  <<p % Limb>> \o NatMulDigitFrom(a, d, i + 1, p \div Limb)
NatMulDigit(a, d) == IF d = 0 THEN <<>> ELSE NatMulDigitFrom(a, d, 1, 0)

\* a * Limb^n
NatShiftDigits(a, n) == IF a = <<>> THEN <<>> ELSE [i \in 1..n |-> 0] \o a

\* a * b, one digit of a at a time
RECURSIVE NatMul(_, _)
NatMul(a, b) ==
    IF a = <<>> THEN <<>>
    ELSE NatAdd(NatMulDigit(b, a[1]), NatShiftDigits(NatMul(Tail(a), b), 1))

\* a * 2^k and a \div 2^k
NatShl(a, k) == NatShiftDigits(NatMulDigit(a, 2^(k % LimbBits)), k \div LimbBits)
NatShr(a, k) ==
    LET n == k \div LimbBits
        r == k % LimbBits
    IN  NatTrim([i \in 1..(Len(a) - n) |->
                    (a[i + n] \div 2^r) + (Digit(a, i + n + 1) % 2^r) * 2^(LimbBits - r)])

\* the number of bits of a
NatBits(a) ==
    IF a = <<>> THEN 0 ELSE (Len(a) - 1) * LimbBits + DigitBits(a[Len(a)])

\* a float64 other than 0 is (-1)^neg * m * 2^e with m of exactly MantBits
\* bits; 0 is the one value below (the sign of 0, infinities, NaN and
\* subnormal numbers do not occur in what draw.go computes)
Zero == [neg |-> FALSE, m |-> <<>>, e |-> 0]

\* (-1)^neg * rounded * 2^e for a mantissa after rounding: one of MantBits
\* bits, or the power of two above them
Normal(neg, rounded, e) ==
    IF NatBits(rounded) > MantBits
    THEN [neg |-> neg, m |-> NatShr(rounded, 1), e |-> e + 1]
    ELSE [neg |-> neg, m |-> rounded, e |-> e]

\* the float64 nearest to (-1)^neg * (q + rest / (2 * half)) * 2^e: up when
\* rest is above half, and from an odd q when it is half
Nearest(neg, q, rest, half, e) ==
    Normal(neg,
           IF NatLess(half, rest) \/ (rest = half /\ q[1] % 2 = 1)
           THEN NatAdd(q, <<1>>)
           ELSE q,
           e)

\* the float64 nearest to (-1)^neg * n * 2^e for n of more than MantBits
\* bits, of which q is n without its k lowest bits
Shortened(neg, n, q, k, e) ==
    Nearest(neg, q, NatSub(n, NatShl(q, k)), NatShl(<<1>>, k - 1), e + k)

\* the float64 nearest to (-1)^neg * n * 2^e for n # 0 of the given number
\* of bits
RoundBits(neg, n, bits, e) ==
    IF bits <= MantBits
    THEN [neg |-> neg, m |-> NatShl(n, MantBits - bits), e |-> e - (MantBits - bits)]
    ELSE Shortened(neg, n, NatShr(n, bits - MantBits), bits - MantBits, e)

\* the float64 nearest to (-1)^neg * n * 2^e, ties to the even mantissa
Round(neg, n, e) == IF n = <<>> THEN Zero ELSE RoundBits(neg, n, NatBits(n), e)

\* float64(n) of an int n
float64(n) == Round(n < 0, NatOf(Abs(n)), 0)

FNeg(a) == IF a = Zero THEN Zero ELSE [a EXCEPT !.neg = ~@]

\* beyond this difference of exponents the smaller term of a sum is less
\* than a quarter of the last bit of the larger one
FarApart == 2 * MantBits

\* (-1)^aneg * na * 2^e + (-1)^bneg * nb * 2^e, rounded: the sum of the two
\* or the larger less the smaller, with the sign of the larger
AddAligned(aneg, na, bneg, nb, e) ==
    Round(IF aneg # bneg /\ NatLess(na, nb) THEN bneg ELSE aneg,
          IF aneg = bneg THEN NatAdd(na, nb)
          ELSE IF NatLess(na, nb) THEN NatSub(nb, na)
          ELSE NatSub(na, nb),
          e)

\* a + b: the exact sum, rounded
FAdd(a, b) ==
    IF a = Zero THEN b
    ELSE IF b = Zero THEN a
    ELSE IF a.e - b.e > FarApart THEN a
    ELSE IF b.e - a.e > FarApart THEN b
    ELSE IF a.e < b.e
    THEN AddAligned(a.neg, a.m, b.neg, NatShl(b.m, b.e - a.e), a.e)
    ELSE AddAligned(a.neg, NatShl(a.m, a.e - b.e), b.neg, b.m, b.e)

\* a - b
FSub(a, b) == FAdd(a, FNeg(b))

\* a * b: the exact product, rounded
FMul(a, b) ==
    IF a = Zero \/ b = Zero THEN Zero
    ELSE Round(a.neg # b.neg, NatMul(a.m, b.m), a.e + b.e)

\* beyond this difference of exponents a term added to a product, or a
\* product added to a term, is too small to count by more than its sign
FarBelow == 2 * MantBits + 2

\* (-1)^pneg * pm * 2^pe + z, rounded once, for a product pm of two mantissas
\* and z # 0; a term below the last bit of the other counts as the least
\* amount of its sign
ProductPlus(pneg, pm, pe, z) ==
    IF pe - z.e > MantBits
    THEN AddAligned(pneg, NatShl(pm, 1), z.neg, <<1>>, pe - 1)
    ELSE IF z.e - pe > FarBelow
    THEN AddAligned(pneg, <<1>>, z.neg, NatShl(z.m, 3), z.e - 3)
    ELSE IF pe < z.e
    THEN AddAligned(pneg, pm, z.neg, NatShl(z.m, z.e - pe), pe)
    ELSE AddAligned(pneg, NatShl(pm, pe - z.e), z.neg, z.m, z.e)

\* math.FMA(x, y, z), the fused multiply-add: x * y + z exactly, rounded once
FMA(x, y, z) ==
    IF x = Zero \/ y = Zero THEN z
    ELSE IF z = Zero THEN FMul(x, y)
    ELSE ProductPlus(x.neg # y.neg, NatMul(x.m, y.m), x.e + y.e, z)

\* the next bits of the quotient of rem / d, rem < d: left bits of them,
\* highest first, as a number below 2^left, with the remainder after them
RECURSIVE DivBits(_, _, _, _)
\* the next bit, of twice the remainder
DivBit(twice, d, left, acc) ==
    IF NatLess(twice, d)
    THEN DivBits(twice, d, left - 1, 2 * acc)
    ELSE DivBits(NatSub(twice, d), d, left - 1, 2 * acc + 1)
DivBits(rem, d, left, acc) ==
    IF left = 0 THEN [rem |-> rem, digit |-> acc]
    ELSE DivBit(NatAdd(rem, rem), d, left, acc)

\* the next n digits of the quotient of rem / d, rem < d, before the digits
\* found so far (lowest first), with the remainder after them
RECURSIVE DivDigits(_, _, _, _)
\* the digits after the next one
DivDigit(next, d, n, found) ==
    DivDigits(next.rem, d, n - 1, <<next.digit>> \o found)
DivDigits(rem, d, n, found) ==
    IF n = 0 THEN [rem |-> rem, digits |-> found]
    ELSE DivDigit(DivBits(rem, d, LimbBits, 0), d, n, found)

\* the digits of a quotient that hold more bits than a mantissa and two
QuotientDigits == (MantBits + 2) \div LimbBits + 1

\* a / b for b # 0: by a power of two exactly; otherwise the quotient of
\* the mantissas, developed to QuotientDigits digits after the binary point
\* with one more bit that says whether anything remains, and rounded
\* (-1)^neg * (2 * q + sticky) * 2^e, rounded
Quotient(neg, q, sticky, e) == Round(neg, NatAdd(NatAdd(q, q), NatOf(sticky)), e)

\* the quotient of the whole part and the digits after it, with the bit
\* that says whether anything remains
Developed(neg, whole, after, e) ==
    Quotient(neg, NatTrim(after.digits \o <<whole>>),
             IF after.rem = <<>> THEN 0 ELSE 1, e)

FDiv(a, b) ==
    IF a = Zero THEN Zero
    ELSE IF b.m = NatShl(<<1>>, MantBits - 1)
    THEN [neg |-> a.neg # b.neg, m |-> a.m, e |-> a.e - b.e - (MantBits - 1)]
    ELSE Developed(a.neg # b.neg,
                   IF NatLess(a.m, b.m) THEN 0 ELSE 1,
                   DivDigits(IF NatLess(a.m, b.m) THEN a.m ELSE NatSub(a.m, b.m),
                             b.m, QuotientDigits, <<>>),
                   a.e - b.e - QuotientDigits * LimbBits - 1)

\* a < b
FLess(a, b) ==
    IF a = Zero THEN b # Zero /\ ~b.neg
    ELSE IF b = Zero THEN a.neg
    ELSE IF a.neg # b.neg THEN a.neg
    ELSE LET below == \/ a.e < b.e
                      \/ a.e = b.e /\ NatLess(a.m, b.m)
             above == \/ b.e < a.e
                      \/ a.e = b.e /\ NatLess(b.m, a.m)
         IN  IF a.neg THEN above ELSE below

FLeq(a, b) == ~FLess(b, a)
\* if scaleW < scaleH { return scaleW }; return scaleH, and the other one
FMin(scaleW, scaleH) == IF FLess(scaleW, scaleH) THEN scaleW ELSE scaleH
FMax(scaleW, scaleH) == IF FLess(scaleW, scaleH) THEN scaleH ELSE scaleW
FAbs(a) == IF a = Zero THEN Zero ELSE [a EXCEPT !.neg = FALSE]

\* computeScale returning the larger of the two ratios
computeScaleLarger(imgW, imgH, screenW, screenH) ==
    IF imgW = 0 \/ imgH = 0 THEN float64(1)
    ELSE FMax(FDiv(float64(screenW), float64(imgW)),
              FDiv(float64(screenH), float64(imgH)))

\* computeScale: the uniform scale at which imgW x imgH fits screenW x screenH
computeScale(imgW, imgH, screenW, screenH) ==
    IF imgW = 0 \/ imgH = 0 THEN float64(1)
    ELSE FMin(FDiv(float64(screenW), float64(imgW)),
              FDiv(float64(screenH), float64(imgH)))

\* ebiten.GeoM: (x, y) goes to (a*x + b*y + tx, c*x + d*y + ty); the fields
\* hold a - 1 and d - 1, so that the zero value is the identity
\* z + x*y and z - x*y written without a conversion around the product: Go
\* lets the build fuse the two operations, rounding once; the arm64 compiler
\* does and the amd64 compiler does not
MulAdd(z, x, y) == IF fused THEN FMA(x, y, z) ELSE FAdd(z, FMul(x, y))
MulSub(z, x, y) == IF fused THEN FMA(FNeg(x), y, z) ELSE FSub(z, FMul(x, y))

GeoM == [a_1 |-> Zero, b |-> Zero, c |-> Zero, d_1 |-> Zero, tx |-> Zero, ty |-> Zero]
\* GeoM.Element(0, 0) and GeoM.Element(1, 1)
GeoMA(g) == FAdd(g.a_1, float64(1))
GeoMD(g) == FAdd(g.d_1, float64(1))
\* GeoM.Translate(tx, ty)
Translate(g, tx, ty) == [g EXCEPT !.tx = FAdd(@, tx), !.ty = FAdd(@, ty)]
\* GeoM.Scale(x, y)
Scale(g, x, y) ==
    [a_1 |-> MulAdd(float64(0 - 1), FAdd(g.a_1, float64(1)), x),
     b   |-> FMul(g.b, x),
     c   |-> FMul(g.c, y),
     d_1 |-> MulAdd(float64(0 - 1), FAdd(g.d_1, float64(1)), y),
     tx  |-> FMul(g.tx, x),
     ty  |-> FMul(g.ty, y)]
\* -math.Pi / 2, that is -0x1.921fb54442d18p+0, the one angle draw.go turns
\* by, and what math.Sincos returns for it: the sine is -1 and the cosine
\* is 0x1.1a62633145c00p-54, not 0
QuarterTurn == [neg |-> TRUE, m |-> <<11544, 4368, 8117, 1608>>, e |-> 0 - 52]
Sincos(theta) ==
    [sin |-> float64(0 - 1),
     cos |-> [neg |-> FALSE, m |-> <<7168, 3153, 8803, 1129>>, e |-> 0 - 106]]
\* GeoM.Rotate(theta), theta # 0; on the matrices draw.go turns (a
\* translation by half the size of a text image) every product is exact,
\* so that a fused sum is the same sum
Rotated(g, sin, cos, a, d) ==
    [a_1 |-> FSub(FSub(FMul(cos, a), FMul(sin, g.c)), float64(1)),
     b   |-> FSub(FMul(cos, g.b), FMul(sin, d)),
     tx  |-> FSub(FMul(cos, g.tx), FMul(sin, g.ty)),
     c   |-> FAdd(FMul(sin, a), FMul(cos, g.c)),
     d_1 |-> FSub(FAdd(FMul(sin, g.b), FMul(cos, d)), float64(1)),
     ty  |-> FAdd(FMul(sin, g.tx), FMul(cos, g.ty))]
Rotate(g, theta) ==
    Rotated(g, Sincos(theta).sin, Sincos(theta).cos,
            FAdd(g.a_1, float64(1)), FAdd(g.d_1, float64(1)))

\* the screen, an *ebiten.Image of the size Layout returned: the DrawImage
\* calls made on it, in order, and whether a panic (an index outside
\* t.tiles, an image without size) has stopped the drawing
Screen(width, height) ==
    [Width |-> width, Height |-> height, calls |-> <<>>, panicked |-> FALSE]
\* screen.DrawImage(img, op)
DrawImage(scr, img, op) == [scr EXCEPT !.calls = Append(@, [img |-> img, GeoM |-> op])]

\* the GeoM of the tile whose corner in the image is (subX, subY): centre to
\* (0, 0), scale, move to its place; the halved product is exact either way
tileGeoM(scale, offsetX, offsetY, subX, subY) ==
    Translate(Scale(Translate(GeoM,
                              FDiv(FNeg(float64(maxTileSize)), float64(2)),
                              FDiv(FNeg(float64(maxTileSize)), float64(2))),
                    scale, scale),
              FAdd(MulAdd(offsetX, float64(subX), scale),
                   FDiv(FMul(float64(maxTileSize), scale), float64(2))),
              FAdd(MulAdd(offsetY, float64(subY), scale),
                   FDiv(FMul(float64(maxTileSize), scale), float64(2))))

\* the inner loop running while tileX*maxTileSize <= t.totalWidth
RECURSIVE drawColumnsInclusive(_, _, _, _, _, _, _, _)
drawColumnsInclusive(scr, t, scale, offsetX, offsetY, tileY, tileX, tileIndex) ==
    IF scr.panicked \/ ~(tileX * maxTileSize <= t.totalWidth)
    THEN [screen |-> scr, tileIndex |-> tileIndex]
    ELSE IF tileIndex >= Len(t.tiles)
    THEN [screen |-> [scr EXCEPT !.panicked = TRUE], tileIndex |-> tileIndex]
    ELSE drawColumnsInclusive(
             DrawImage(scr, t.tiles[tileIndex + 1],
                       tileGeoM(scale, offsetX, offsetY,
                                tileX * maxTileSize, tileY * maxTileSize)),
             t, scale, offsetX, offsetY, tileY, tileX + 1, tileIndex + 1)

\* the inner loop, for tileX := tileX; tileX*maxTileSize < t.totalWidth;
\* tileX++: draws t.tiles[tileIndex] and counts tileIndex up
RECURSIVE drawColumns(_, _, _, _, _, _, _, _)
drawColumns(scr, t, scale, offsetX, offsetY, tileY, tileX, tileIndex) ==
    IF scr.panicked \/ ~(tileX * maxTileSize < t.totalWidth)
    THEN [screen |-> scr, tileIndex |-> tileIndex]
    ELSE IF tileIndex >= Len(t.tiles)
    THEN [screen |-> [scr EXCEPT !.panicked = TRUE], tileIndex |-> tileIndex]
    ELSE drawColumns(
             DrawImage(scr, t.tiles[tileIndex + 1],
                       tileGeoM(scale, offsetX, offsetY,
                                tileX * maxTileSize, tileY * maxTileSize)),
             t, scale, offsetX, offsetY, tileY, tileX + 1, tileIndex + 1)

\* the outer loop, for tileY := tileY; tileY*maxTileSize < t.totalHeight;
\* tileY++
RECURSIVE drawRows(_, _, _, _, _, _, _)
\* the rows below the row tileY, which has been drawn
drawRowsBelow(row, t, scale, offsetX, offsetY, tileY) ==
    drawRows(row.screen, t, scale, offsetX, offsetY, tileY + 1, row.tileIndex)
drawRows(scr, t, scale, offsetX, offsetY, tileY, tileIndex) ==
    IF scr.panicked \/ ~(tileY * maxTileSize < t.totalHeight) THEN scr
    ELSE drawRowsBelow(drawColumns(scr, t, scale, offsetX, offsetY, tileY, 0, tileIndex),
                       t, scale, offsetX, offsetY, tileY)

\* drawTiledImage: t at (offsetX, offsetY) with the given scale
drawTiledImage(scr, t, scale, offsetX, offsetY) ==
    drawRows(scr, t, scale, offsetX, offsetY, 0, 0)

\* drawSingleImage: t scaled to fit the screen and centred on it, by the
\* same two loops
drawSingleScaled(scr, t, sw, sh, scale) ==
    drawRows(scr, t, scale,
             FDiv(MulSub(float64(sw), float64(t.totalWidth), scale), float64(2)),
             FDiv(MulSub(float64(sh), float64(t.totalHeight), scale), float64(2)),
             0, 0)
drawSingleImage(scr, t) ==
    drawSingleScaled(scr, t, scr.Width, scr.Height,
                     computeScale(t.totalWidth, t.totalHeight, scr.Width, scr.Height))

\* drawTwoPortraitsSideBySide: each image scaled to fit sw/2 x sh, the left
\* one centred in the left half and the right one in the right half
\* leftX and leftY, rightX and rightY of an image of the scaled size
\* of an image lw wide and lh high before scaling; float64(sw)/2 - scaledLW
\* is a difference with a product, scaledLH/2 a product halved, exact either way
leftX(sw, lw, leftScale) ==
    FDiv(MulSub(FDiv(float64(sw), float64(2)), float64(lw), leftScale), float64(2))
leftY(sh, lh, leftScale) ==
    FSub(FDiv(float64(sh), float64(2)), FDiv(FMul(float64(lh), leftScale), float64(2)))
rightX(sw, rw, rightScale) ==
    FAdd(FDiv(float64(sw), float64(2)),
         FDiv(MulSub(FDiv(float64(sw), float64(2)), float64(rw), rightScale), float64(2)))
rightY(sh, rh, rightScale) ==
    FSub(FDiv(float64(sh), float64(2)), FDiv(FMul(float64(rh), rightScale), float64(2)))
drawTwoScaled(scr, leftImg, rightImg, sw, sh, leftScale, rightScale) ==
    drawTiledImage(drawTiledImage(scr, leftImg, leftScale,
                                  leftX(sw, leftImg.totalWidth, leftScale),
                                  leftY(sh, leftImg.totalHeight, leftScale)),
                   rightImg, rightScale,
                   rightX(sw, rightImg.totalWidth, rightScale),
                   rightY(sh, rightImg.totalHeight, rightScale))
drawTwoPortraitsSideBySide(scr, leftImg, rightImg) ==
    drawTwoScaled(scr, leftImg, rightImg, scr.Width, scr.Height,
                  computeScale(leftImg.totalWidth, leftImg.totalHeight,
                               scr.Width \div 2, scr.Height),
                  computeScale(rightImg.totalWidth, rightImg.totalHeight,
                               scr.Width \div 2, scr.Height))

\* photo.Photo as far as drawSlide reads it
DatedPhoto(path, takenTime) == [FilePath |-> path, TakenTime |-> takenTime]

SecondsPerDay == 24 * 60 * 60

\* takenTime.Format("2006-01-02") for a time of January 1970, UTC: the
\* year, the month and the day of the month, whatever the time of day
Format(takenTime) ==
    <<"1", "9", "7", "0", "-", "0", "1", "-">>
        \o TwoDigits(takenTime.sec \div SecondsPerDay + 1)

\* basicfont.Face7x13: each glyph is 6 wide in a cell 7 wide, 11 above the
\* baseline and 2 below
Face7x13 == [Advance |-> 7, Width |-> 6, Ascent |-> 11, Descent |-> 2]

\* text.BoundString(face, textStr): the bounds of the glyphs of one line
BoundString(face, textStr) ==
    IF textStr = <<>> THEN [Dx |-> 0, Dy |-> 0]
    ELSE [Dx |-> (Len(textStr) - 1) * face.Advance + face.Width,
          Dy |-> face.Ascent + face.Descent]

\* drawVerticalText: the text drawn into an image of its own, which is
\* drawn on the screen turned by 90 degrees, near the bottom of the left or
\* of the right edge
\* ebiten.NewImage(width, height) with the text drawn into it
NewTextImage(width, height, textStr) ==
    [Width |-> width, Height |-> height, text |-> textStr]
\* finalX and finalY
finalX(sw, margin, textHeight, isLeftEdge) ==
    IF isLeftEdge
    THEN FAdd(margin, FDiv(float64(textHeight), float64(2)))
    ELSE FSub(FSub(float64(sw), margin), FDiv(float64(textHeight), float64(2)))
finalY(sh, margin, textWidth) ==
    FSub(FSub(float64(sh), margin), FDiv(float64(textWidth), float64(2)))
\* the text of the measured size, turned and put in its place
drawTurnedText(scr, textStr, isLeftEdge, textWidth, textHeight, margin) ==
    \* ebiten.NewImage panics unless both sides are positive
    IF scr.panicked THEN scr
    ELSE IF textWidth <= 0 \/ textHeight <= 0 THEN [scr EXCEPT !.panicked = TRUE]
    ELSE DrawImage(scr, NewTextImage(textWidth, textHeight, textStr),
                   Translate(Rotate(Translate(GeoM,
                                              FDiv(FNeg(float64(textWidth)), float64(2)),
                                              FDiv(FNeg(float64(textHeight)), float64(2))),
                                    QuarterTurn),
                             finalX(scr.Width, margin, textHeight, isLeftEdge),
                             finalY(scr.Height, margin, textWidth)))
drawVerticalText(scr, textStr, isLeftEdge) ==
    drawTurnedText(scr, textStr, isLeftEdge,
                   BoundString(Face7x13, textStr).Dx, BoundString(Face7x13, textStr).Dy,
                   float64(20))

\* drawDateOverlayLeft: the date near the bottom of the left edge
drawDateOverlayLeft(scr, takenTime) ==
    drawVerticalText(scr, Format(takenTime), TRUE)
\* drawDateOverlayRight: the date near the bottom of the right edge
drawDateOverlayRight(scr, takenTime) ==
    drawVerticalText(scr, Format(takenTime), FALSE)

\* drawSlide after the Fill: one image alone, two side by side, any other
\* number not at all; over them the dates of the photos when dateOverlay
\* is set and the slide has as many photos as there are images
\* the dates over the one image drawn, and over the two
datedSingle(scr, slide, dateOverlay) ==
    IF dateOverlay /\ Len(slide.Photos) = 1
    THEN drawDateOverlayLeft(scr, slide.Photos[1].TakenTime)
    ELSE scr
datedPair(scr, slide, dateOverlay) ==
    IF dateOverlay /\ Len(slide.Photos) = 2
    THEN drawDateOverlayRight(drawDateOverlayLeft(scr, slide.Photos[1].TakenTime),
                              slide.Photos[2].TakenTime)
    ELSE scr
drawSlide(scr, slide, tiledImages, dateOverlay) ==
    IF Len(tiledImages) = 1
    THEN datedSingle(drawSingleImage(scr, tiledImages[1]), slide, dateOverlay)
    ELSE IF Len(tiledImages) = 2
    THEN datedPair(drawTwoPortraitsSideBySide(scr, tiledImages[1], tiledImages[2]),
                   slide, dateOverlay)
    ELSE scr

\* the sizes of the images drawSlide is run with: every small size, the
\* empty ones included, and sizes whose scale is no binary fraction
DrawSizes ==
    ((1..MaxSmallSide) \X (1..MaxSmallSide))
        \cup {<<0, 0>>, <<0, 1>>, <<1, 0>>}
        \cup {<<1, 7>>, <<9, 1>>, <<11, 12>>, <<29, 30>>}
\* the tile edges drawSlide is run with
DrawTileSizes == TileSizes \cup {MaxDrawTile}
\* the decoded images of these sizes that make MaxTiles tiles at most, and a
\* GIF frame away from the corner of its logical screen
DrawSources ==
    { DecodedFrame(0, 0, size[1], size[2]) :
        size \in { wh \in DrawSizes :
                      ((wh[1] + maxTileSize - 1) \div maxTileSize)
                          * ((wh[2] + maxTileSize - 1) \div maxTileSize) <= MaxTiles } }
        \cup { DecodedFrame(at, at, MaxTileSize, MaxTileSize) : at \in 1..MaxOffset }
\* the *TiledImage values the loader returns for them
TiledImages == { t \in { sliceTiles(src) : src \in DrawSources } : ~IsPanic(t) }
\* the slide of n photos, the i-th of them taken i seconds into the day
\* after the one before it
DrawnSlide(n) ==
    Slide([i \in 1..n |-> DatedPhoto(i, Time((i - 1) * SecondsPerDay + i, 0))])

DrawInit ==
    /\ pc = "loaded"
    /\ maxTileSize \in DrawTileSizes
    /\ loaded \in { <<t>> : t \in TiledImages } \cup (TiledImages \X TiledImages)
    /\ argSlide = DrawnSlide(Len(loaded))
    /\ gDateOverlay \in BOOLEAN
    /\ drawCalls = <<>>
    /\ fused \in BOOLEAN
    /\ decoded = <<>>
    /\ orientation = 1
    /\ corrected = <<>>
    /\ tiled = <<>>
    /\ GameIdle
    /\ RemoteIdle
    /\ CacheIdle
    /\ SyncIdle

\* Draw with the slide loaded: drawSlide on the screen of the size Layout
\* returns; a panic ends the program
DrawSlide ==
    /\ pc = "loaded"
    /\ \E scr \in {drawSlide(Screen(LayoutWidth, LayoutHeight),
                             argSlide, loaded, gDateOverlay)} :
         /\ drawCalls' = scr.calls
         /\ pc' = IF scr.panicked THEN "panic" ELSE "drawn"
    /\ UNCHANGED <<loaded, argSlide, fused, loaderVars>>
    /\ UNCHANGED <<gameVars, remoteVars, cacheVars, syncVars>>

DrawNext == DrawSlide

SpecDraw == DrawInit /\ [][DrawNext]_vars

(***************************************************************************)
(* Properties of the slide composer, under SpecCompose.                    *)
(***************************************************************************)
\* the Photos lists of the slides ss, concatenated in slide order
RECURSIVE AllPhotos(_)
AllPhotos(ss) == IF ss = <<>> THEN <<>> ELSE Head(ss).Photos \o AllPhotos(Tail(ss))

\* C1: for every input sequence, the Photos lists of the slides returned by
\* BuildSlidesFromPhotos, concatenated in slide order, are exactly the input
\* (every photo in one slide, none dropped or duplicated, order kept), and
\* every slide holds 1 or 2 photos.
C1_SlidesCoverInput ==
    pc = "composed" =>
        /\ AllPhotos(slides) = photos
        /\ \A k \in 1..Len(slides) : Len(slides[k].Photos) \in {1, 2}

\* a composed input of mixed shapes that gave a pair and a single slide
C1_Witness ==
    /\ pc = "composed"
    /\ Len(photos) >= 3
    /\ \E k \in 1..Len(slides) : Len(slides[k].Photos) = 2
    /\ \E k \in 1..Len(slides) : Len(slides[k].Photos) = 1

\* C2: every two-photo slide is made of two photos adjacent in the input,
\* both with Height > Width strictly; no square or landscape photo is paired.
C2_PairsArePortraitNeighbours ==
    pc = "composed" =>
        \A k \in 1..Len(slides) :
            Len(slides[k].Photos) = 2 =>
                /\ \A j \in 1..2 :
                     slides[k].Photos[j].Height > slides[k].Photos[j].Width
                /\ \E i \in 1..(Len(photos) - 1) :
                     /\ photos[i] = slides[k].Photos[1]
                     /\ photos[i + 1] = slides[k].Photos[2]

\* a pair was made although a square photo stands next to a portrait one
C2_Witness ==
    /\ pc = "composed"
    /\ \E k \in 1..Len(slides) : Len(slides[k].Photos) = 2
    /\ \E i \in 1..(Len(photos) - 1) :
         /\ photos[i].Height > photos[i].Width
         /\ photos[i + 1].Height = photos[i + 1].Width

\* the number of photos in the slides before slide k: the position in the
\* input, counted from 0, at which slide k starts
RECURSIVE StartOf(_)
StartOf(k) == IF k = 1 THEN 0 ELSE StartOf(k - 1) + Len(slides[k - 1].Photos)

\* the input photo at position i, counted from 0, is portrait
PortraitAt(i) == photos[i + 1].Height > photos[i + 1].Width

\* C22: the slides are those of one greedy left-to-right pass: the slide that
\* starts at position i is the pair of photos i and i+1 exactly when both
\* exist and are portrait, and photo i alone otherwise, the next slide
\* starting right after it; so no two neighbouring one-photo slides are
\* both portrait, and three portraits in a row give a pair and then a single.
C22_GreedyPass ==
    pc = "composed" =>
        /\ \A k \in 1..Len(slides) :
             \E i \in {StartOf(k)} :
                /\ i < Len(photos)
                /\ IF i + 1 < Len(photos) /\ PortraitAt(i) /\ PortraitAt(i + 1)
                   THEN slides[k].Photos = <<photos[i + 1], photos[i + 2]>>
                   ELSE slides[k].Photos = <<photos[i + 1]>>
        /\ StartOf(Len(slides) + 1) = Len(photos)
        /\ \A k \in 1..(Len(slides) - 1) :
             ~ /\ Len(slides[k].Photos) = 1
               /\ Len(slides[k + 1].Photos) = 1
               /\ slides[k].Photos[1].Height > slides[k].Photos[1].Width
               /\ slides[k + 1].Photos[1].Height > slides[k + 1].Photos[1].Width
        /\ (Len(photos) = 3 /\ \A i \in 0..2 : PortraitAt(i)) =>
             slides = <<Slide(<<photos[1], photos[2]>>), Slide(<<photos[3]>>)>>

\* three portraits in a row were composed: the third stands alone
C22_Witness ==
    /\ pc = "composed"
    /\ Len(photos) = 3
    /\ \A i \in 0..2 : PortraitAt(i)
    /\ Len(slides) = 2
    /\ slides[2].Photos = <<photos[3]>>

(***************************************************************************)
(* Properties of the controller: of the code under Spec, of the remote      *)
(* control under SpecControl.                                              *)
(***************************************************************************)
\* the slide at currentIndex
CurrentSlide == slides[currentIndex + 1]

\* the file paths of slide sl
SlidePaths(sl) == { sl.Photos[k].FilePath : k \in 1..Len(sl.Photos) }

\* the last call of the trace, and whether it is a loader call that failed
LastCall == trace[Len(trace)]
LastLoadFailed == trace # <<>> /\ LastCall.op = "load" /\ ~LastCall.ok

\* the four states of the controller: the paused flag stands on its own, so
\* a paused controller is PAUSED whatever its last load did
ControllerState ==
    IF paused THEN "PAUSED"
    ELSE IF loadingError # nil THEN "ERROR"
    ELSE IF currentTiledImages = <<>> THEN "LOADING"
    ELSE "READY"

\* a step of Update that took the one event cmd waiting in the channel and
\* returned (a tick the loader panics in returns nothing: see C6)
Takes(cmd) ==
    /\ pc = "run" /\ pc' = "run"
    /\ remoteEvents = <<cmd>>
    /\ remoteEvents' = <<>>

\* C3: whenever the slide list is non-empty, 0 <= currentIndex < len(slides),
\* after construction and after any ticks, advances and load results; the
\* invalid-index error of LoadCurrentSlide is never produced.
C3_IndexInRange ==
    Len(slides) > 0 =>
        /\ 0 <= currentIndex
        /\ currentIndex < Len(slides)
        /\ loadingError.kind # "invalid currentIndex"

\* the index stands on the last of several slides after loads that failed
C3_Witness ==
    /\ pc = "run"
    /\ Len(slides) >= 2
    /\ currentIndex = Len(slides) - 1
    /\ LastLoadFailed
    /\ now > 0

\* C4: at most one slide's TiledImages are resident: the resident images are
\* images of the current slide's photos, the loader is only ever called with
\* no image resident, and a step that changes the slide disposes of every
\* image that was resident, before its first loader call.
C4_ResidentOfCurrentSlide ==
    Len(slides) > 0 =>
        /\ Len(currentTiledImages) <= Len(CurrentSlide.Photos)
        /\ \A k \in 1..Len(currentTiledImages) :
             currentTiledImages[k].photo = CurrentSlide.Photos[k].FilePath
        /\ \A j \in 1..Len(trace) :
             trace[j].op \in {"load", "panic"} => trace[j].resident = 0

C4_DisposedBeforeLoad ==
    (\/ trace' # trace
     \/ currentIndex' # currentIndex
     \/ currentTiledImages' # currentTiledImages)
    => \A k \in 1..Len(currentTiledImages) :
         \E j \in 1..Len(trace') :
            /\ trace'[j] = Dispose(currentTiledImages[k])
            /\ \A i \in 1..j : trace'[i].op \notin {"load", "panic"}

C4_OneSlideResident ==
    /\ []C4_ResidentOfCurrentSlide
    /\ [][C4_DisposedBeforeLoad]_vars

\* an advance onto a two-photo slide disposed of the image of another slide
C4_Witness ==
    /\ pc = "run"
    /\ Len(currentTiledImages) = 2
    /\ trace[1].op = "Dispose"
    /\ trace[1].photo \notin SlidePaths(CurrentSlide)

\* C5: the controller holds a last error exactly when the most recent load
\* attempt failed, and then holds no image; the error does not change in a
\* step that attempts no load. (Of the controller of a running process: a
\* panic of the loader leaves no controller behind.)
C5_ErrorOfLastLoad ==
    pc # "panic" =>
        /\ loadingError = IF LastLoadFailed THEN LoadError(LastCall.photo) ELSE nil
        /\ loadingError # nil => currentTiledImages = <<>>

C5_ErrorKept ==
    (trace' = trace /\ currentIndex' = currentIndex) => loadingError' = loadingError

C5_ErrorIffLastLoadFailed ==
    /\ []C5_ErrorOfLastLoad
    /\ [][C5_ErrorKept]_vars

\* a reload succeeded after the error state: the slide changed with nothing
\* to dispose of, and the error is gone
C5_Witness ==
    /\ pc = "run"
    /\ currentIndex > 0
    /\ trace # <<>>
    /\ \A j \in 1..Len(trace) : trace[j].op = "load" /\ trace[j].ok
    /\ loadingError = nil
    /\ currentTiledImages # <<>>

\* the render loop has ended by a panic in Update (a panic of main's own
\* first load comes before any tick)
LoopPanicked == pc = "panic" /\ ticked

\* C6: a slide load failure never ends the render loop, whatever the photo:
\* the loop has ended, by a return of Update or by a panic in it, only if
\* Escape was pressed on its last tick.
C6_OnlyExitEndsLoop == (pc = "exited" \/ LoopPanicked) => escPressed

\* the timer went on to slide 1 after slide 0 was displayed, and the loader
\* panicked on the photo of slide 1 with the image of slide 0 disposed of:
\* the loop has ended without Escape
C6_Witness ==
    /\ LoopPanicked
    /\ ~escPressed
    /\ Len(slides) >= 2
    /\ currentIndex = 1
    /\ screen.kind = "drawSlide"
    /\ Len(trace) = 2
    /\ trace[1].op = "Dispose"
    /\ LastCall.op = "panic"
    /\ LastCall.photo \in SlidePaths(CurrentSlide)

\* C7: no partial slide: the game holds none or all of the current slide's
\* images; when a load of a two-photo slide failed, on its first or on its
\* second photo, the error is set, no image is resident, and every frame
\* drawn in that state shows the error and no image.
C7_NoneOrAll ==
    (Len(slides) > 0 /\ Len(CurrentSlide.Photos) = 2) =>
        /\ Len(currentTiledImages) \in {0, 2}
        /\ LastLoadFailed =>
             /\ loadingError # nil
             /\ currentTiledImages = <<>>

C7_DrawStep ==
    (/\ screen' # screen
     /\ Len(CurrentSlide.Photos) = 2)
    => /\ screen'.images \in {<<>>, currentTiledImages}
       /\ LastLoadFailed => /\ screen'.kind = "Error loading image(s)"
                            /\ screen'.images = <<>>

C7_NoPartialSlide == []C7_NoneOrAll /\ [][C7_DrawStep]_vars

\* the first photo of a pair loaded, the second failed, and the error is shown
C7_Witness ==
    /\ pc = "run"
    /\ Len(CurrentSlide.Photos) = 2
    /\ Len(trace) >= 2
    /\ trace[Len(trace) - 1].op = "load"
    /\ trace[Len(trace) - 1].ok
    /\ LastLoadFailed
    /\ LastCall.photo = CurrentSlide.Photos[2].FilePath
    /\ screen.kind = "Error loading image(s)"

\* C8: while paused, a step in which no Left or Right is waiting and after
\* which the game is still paused changes neither index nor images, however
\* far the clock is past the deadline; a Left or Right taken while paused
\* still moves the index and reloads that slide.
C8_PauseStep ==
    /\ (/\ paused /\ paused'
        /\ \A i \in 1..Len(remoteEvents) : remoteEvents[i] = RemoteSelect)
       => UNCHANGED <<currentIndex, currentTiledImages, loadingError, trace>>
    /\ (paused /\ (Takes(RemoteLeft) \/ Takes(RemoteRight)))
       => /\ paused'
          /\ currentIndex' = IF Takes(RemoteRight)
                             THEN (currentIndex + 1) % Len(slides)
                             ELSE (currentIndex + Len(slides) - 1) % Len(slides)
          /\ LastCall'.op = "load"
          /\ LastCall'.photo \in SlidePaths(CurrentSlide')

C8_PauseSuppressesTimerOnly == [][C8_PauseStep]_vars

\* paused on slide 0 with the clock past the deadline, slide 0 on the screen
C8_Witness ==
    /\ pc = "run"
    /\ paused
    /\ interval > 0
    /\ now > switchTime
    /\ Len(slides) >= 2
    /\ currentIndex = 0
    /\ screen.kind = "drawSlide"
    /\ trace = <<[op |-> "load", photo |-> 1, ok |-> TRUE, resident |-> 0]>>

\* C9: a Left event, in any state, sets the index to index - 1, wrapping
\* from 0 to len(slides) - 1, reloads that slide and sets the deadline to
\* now + interval.
C9_LeftStep ==
    Takes(RemoteLeft) =>
        /\ currentIndex' = IF currentIndex = 0 THEN Len(slides) - 1
                           ELSE currentIndex - 1
        /\ \A k \in 1..Len(currentTiledImages) :
             \E j \in 1..Len(trace') : trace'[j] = Dispose(currentTiledImages[k])
        /\ LastCall'.op = "load"
        /\ LastCall'.photo \in SlidePaths(CurrentSlide')
        /\ LastCall'.ok => /\ Len(currentTiledImages') = Len(CurrentSlide'.Photos)
                           /\ loadingError' = nil
        /\ switchTime' = now' + interval

C9_LeftWraps == [][C9_LeftStep]_vars

\* three slides: the image of slide 0 was disposed of and slide 2 loaded
C9_Witness ==
    /\ pc = "run"
    /\ Len(slides) = 3
    /\ currentIndex = 2
    /\ trace = <<Dispose(TiledImage(1)),
                 [op |-> "load", photo |-> 3, ok |-> TRUE, resident |-> 0]>>

\* C10: a Right event taken in ERROR leads to READY when the reload of the
\* next slide succeeds and to ERROR when it fails, never to PAUSED.
C10_RightStep ==
    (ControllerState = "ERROR" /\ Takes(RemoteRight)) =>
        /\ currentIndex' = (currentIndex + 1) % Len(slides)
        /\ LastCall'.photo \in SlidePaths(CurrentSlide')
        /\ ControllerState' = IF LastCall'.ok THEN "READY" ELSE "ERROR"

C10_RightFromError == [][C10_RightStep]_vars

\* slide 1 of 3 is loaded at time 0, with nothing disposed of: the first
\* load failed and a Right event reloaded
C10_Witness ==
    /\ pc = "run"
    /\ Len(slides) = 3
    /\ currentIndex = 1
    /\ interval > 0
    /\ now = 0
    /\ ControllerState = "READY"
    /\ \A j \in 1..Len(trace) : trace[j].op = "load"

\* the steps that set the deadline: the constructor, a navigation (a Left or
\* a Right is waiting, or nothing is waiting and the timer is due), and a
\* resume (only Selects are waiting and one of them is taken while paused)
Constructs == pc = "built" /\ pc' = "constructed"
Navigates ==
    /\ pc = "run" /\ pc' = "run"
    /\ \/ \E i \in 1..Len(remoteEvents) : remoteEvents[i] \in {RemoteLeft, RemoteRight}
       \/ remoteEvents = <<>> /\ ~paused /\ now > switchTime
Resumes ==
    /\ pc = "run" /\ pc' = "run"
    /\ \A i \in 1..Len(remoteEvents) : remoteEvents[i] = RemoteSelect
    /\ \/ paused /\ Len(remoteEvents) >= 1
       \/ ~paused /\ Len(remoteEvents) >= 2

\* C11 as stated: the deadline never decreases, and it changes only when the
\* constructor or a navigation sets it to now + interval (in a tick that
\* returns).
C11_OnlyNavigationStep ==
    (switchTime' # switchTime /\ pc' # "panic") =>
        /\ switchTime' > switchTime
        /\ switchTime' = now' + interval
        /\ Constructs \/ Navigates

C11_DeadlineChangesOnlyOnNavigation == [][C11_OnlyNavigationStep]_vars

\* C11 as amended: the deadline never decreases, and it changes only when the
\* constructor, a navigation or a resume from pause sets it to now + interval
\* (in a tick that returns).
C11_ForwardStep ==
    /\ switchTime' >= switchTime
    /\ now' >= now
    /\ (switchTime' # switchTime /\ pc' # "panic") =>
         /\ switchTime' = now' + interval
         /\ Constructs \/ Navigates \/ Resumes

C11_DeadlineMovesForward == [][C11_ForwardStep]_vars

\* the deadline was moved past its first value with slide 0 never left
C11_Witness ==
    /\ pc = "run"
    /\ ~paused
    /\ interval > 0
    /\ now > 0
    /\ switchTime = now + interval
    /\ Len(slides) >= 2
    /\ currentIndex = 0
    /\ loadingError = nil
    /\ trace = <<[op |-> "load", photo |-> 1, ok |-> TRUE, resident |-> 0]>>

\* a step of Update without an exit request, the first since the last Draw,
\* that returned (a tick the loader panics in returns nothing: see C6)
UpdateStep == pc = "run" /\ pc' = "run" /\ ~ticked /\ ticked'

\* the step went to the next slide, wrapping after the last: it disposed of
\* the images that were resident, called the loader for the new slide, holds
\* all its images or the error and none, and set the deadline from the clock
AdvancedByOne ==
    /\ currentIndex' = IF currentIndex = Len(slides) - 1 THEN 0
                       ELSE currentIndex + 1
    /\ \A k \in 1..Len(currentTiledImages) :
         \E j \in 1..Len(trace') : trace'[j] = Dispose(currentTiledImages[k])
    /\ trace' # <<>>
    /\ LastCall'.op = "load"
    /\ LastCall'.photo \in SlidePaths(CurrentSlide')
    /\ IF LastCall'.ok
       THEN /\ Len(currentTiledImages') = Len(CurrentSlide'.Photos)
            /\ loadingError' = nil
       ELSE /\ currentTiledImages' = <<>>
            /\ loadingError' = LoadError(LastCall'.photo)
    /\ switchTime' = now' + interval

\* C23: a tick without an exit request goes to the next slide (wrapping to
\* 0), releases the old images, attempts the load and sets the deadline to
\* now + interval, load failed or not, when the clock is strictly past the
\* deadline; at or before the deadline it changes neither index, resident
\* images, error nor deadline.
C23_TimerStep ==
    UpdateStep =>
        IF now > switchTime
        THEN AdvancedByOne
        ELSE UNCHANGED <<currentIndex, currentTiledImages, loadingError, switchTime,
                         trace>>

C23_TimerAdvances == [][C23_TimerStep]_vars

\* the slide after the last is slide 0: its load failed, after the image of
\* the last slide was disposed of, and the deadline is a full interval away
C23_Witness ==
    /\ pc = "run"
    /\ Len(slides) = 2
    /\ currentIndex = 0
    /\ now > 0
    /\ switchTime = now + interval
    /\ Len(trace) = 2
    /\ trace[1].op = "Dispose"
    /\ trace[1].photo \in SlidePaths(slides[2])
    /\ LastLoadFailed
    /\ screen.kind = "Error loading image(s)"

\* C24 as stated: a tick that finds the clock past the deadline while the
\* controller is in ERROR or LOADING leaves the index alone and calls no
\* loader.
C24_ReadyOnlyStep ==
    (/\ UpdateStep
     /\ now > switchTime
     /\ ControllerState \in {"ERROR", "LOADING"})
    => UNCHANGED <<currentIndex, trace>>

C24_AdvanceOnlyWhileReady == [][C24_ReadyOnlyStep]_vars

\* C24 as amended: the timer does not wait for READY: a tick that finds the
\* clock past the deadline while the controller is in ERROR goes to the next
\* slide and attempts its load, which is the retry; and no tick finds the
\* controller in LOADING, because main loads the first slide before the loop.
C24_ErrorStep ==
    (/\ UpdateStep
     /\ now > switchTime
     /\ ControllerState = "ERROR")
    => AdvancedByOne

C24_NeverLoadingInLoop == pc = "run" => ControllerState # "LOADING"

C24_TimerRetriesFromError == []C24_NeverLoadingInLoop /\ [][C24_ErrorStep]_vars

\* slide 1 of 2 is displayed after a load made with nothing resident and
\* nothing to dispose of, later than time 0: the first load had failed
C24_Witness ==
    /\ pc = "run"
    /\ Len(slides) = 2
    /\ currentIndex = 1
    /\ ControllerState = "READY"
    /\ interval > 0
    /\ now > interval
    /\ switchTime = now + interval
    /\ \A j \in 1..Len(trace) : trace[j].op = "load" /\ trace[j].ok
    /\ screen.kind = "drawSlide"

\* C25: on a tick with an exit request Update returns before it looks at the
\* deadline: the loop ends with index, images, error, deadline and channel
\* as they were and no Dispose or loader call made, even when the deadline
\* has passed; and after that nothing runs any more.
C25_ExitStep ==
    /\ (pc = "run" /\ escPressed') =>
         /\ pc' = "exited"
         /\ UNCHANGED <<currentIndex, currentTiledImages, loadingError,
                        switchTime, paused, remoteEvents, ticked, now, screen, trace>>
    /\ pc = "exited" => UNCHANGED vars

C25_ExitCheckedFirst == [][C25_ExitStep]_vars

\* the loop has ended on slide 0 with the deadline passed and a Left waiting
\* in the channel
C25_Witness ==
    /\ pc = "exited"
    /\ escPressed
    /\ now > switchTime
    /\ Len(slides) >= 2
    /\ currentIndex = 0
    /\ remoteEvents = <<RemoteLeft>>
    /\ trace = <<[op |-> "load", photo |-> 1, ok |-> TRUE, resident |-> 0]>>

\* the k-th call of the trace created a TiledImage: a load that succeeded
Created(k) == trace[k].op = "load" /\ trace[k].ok
\* the TiledImage the k-th call created is in the controller's resident set
Resident(k) ==
    \E j \in DOMAIN currentTiledImages :
        currentTiledImages[j] = TiledImage(trace[k].photo)
\* its tiles were disposed of by a later call
Disposed(k) ==
    \E l \in (k + 1)..Len(trace) : trace[l] = Dispose(TiledImage(trace[k].photo))

\* C28: every TiledImage the loader created in the last slide change (or in
\* main's first load) is, once the load call has returned, resident or
\* disposed of: no undisposed tile exists outside the resident set, also
\* when the first photo of a two-photo slide decoded and the second failed.
C28_CreatedIsResidentOrDisposed ==
    \A k \in DOMAIN trace : Created(k) => Resident(k) \/ Disposed(k)

\* the first photo of a pair was decoded, the second failed: the first
\* photo's TiledImage is neither resident nor disposed of
C28_Witness ==
    /\ pc = "run"
    /\ Len(CurrentSlide.Photos) = 2
    /\ Len(trace) >= 2
    /\ Created(Len(trace) - 1)
    /\ trace[Len(trace) - 1].photo = CurrentSlide.Photos[1].FilePath
    /\ LastLoadFailed
    /\ currentTiledImages = <<>>
    /\ ~Disposed(Len(trace) - 1)

(***************************************************************************)
(* Properties of the image loader, under SpecLoader.                       *)
(***************************************************************************)
\* a divided by b, rounded up
Ceil(a, b) == (a + b - 1) \div b
\* the grid of the tiles of a w x h image
Cols == Ceil(Dx(corrected.Rect), maxTileSize)
Rows == Ceil(Dy(corrected.Rect), maxTileSize)
\* the k-th tile of the list, k from 0
TileAt(k) == tiled.tiles[k + 1]
\* where in the corrected image the pixel q of the k-th tile lands when the
\* tile is placed at ((k mod cols)*MAX_TILE, (k div cols)*MAX_TILE) from the
\* image's corner
PlacedAt(k, q) ==
    <<corrected.Rect.MinX + (k % Cols) * maxTileSize + q[1],
      corrected.Rect.MinY + (k \div Cols) * maxTileSize + q[2]>>
\* the pixels of the k-th tile
TilePoints(k) == (0..(TileAt(k).Width - 1)) \X (0..(TileAt(k).Height - 1))

\* C12: for a corrected image of width w >= 1 and height h >= 1, every tile
\* is at most maxTileSize wide and high, every tile outside the last column
\* is exactly maxTileSize wide and every tile outside the last row exactly
\* maxTileSize high, and there are ceil(w/maxTileSize) * ceil(h/maxTileSize)
\* tiles.
C12_TileSizes ==
    (/\ pc \in {"tiled", "panic"}
     /\ Dx(corrected.Rect) >= 1
     /\ Dy(corrected.Rect) >= 1) =>
        /\ pc = "tiled"
        /\ tiled.totalWidth = Dx(corrected.Rect)
        /\ tiled.totalHeight = Dy(corrected.Rect)
        /\ Len(tiled.tiles) = Cols * Rows
        /\ \A k \in 0..(Len(tiled.tiles) - 1) :
             /\ TileAt(k).Width \in 1..maxTileSize
             /\ TileAt(k).Height \in 1..maxTileSize
             /\ k % Cols # Cols - 1 => TileAt(k).Width = maxTileSize
             /\ k \div Cols # Rows - 1 => TileAt(k).Height = maxTileSize

\* a GIF frame one pixel wider than the tile edge, placed one pixel right of
\* the origin (3 x 1 at (1, 0) in tiles of edge 2, as 2049 x 1 at (1, 0) in
\* tiles of edge 2048): two tiles, and the first, which is not in the last
\* column, is one pixel short of the edge
C12_Witness ==
    /\ pc = "tiled"
    /\ maxTileSize = 2
    /\ orientation = 1
    /\ corrected.Rect = Rect(1, 0, 4, 1)
    /\ Cols = 2 /\ Rows = 1
    /\ Len(tiled.tiles) = 2
    /\ TileAt(0).Width = 1 /\ TileAt(0).Height = 1
    /\ TileAt(1).Width = 1 /\ TileAt(1).Height = 1

\* a GIF frame of 1 x 1 at (0, 1): at every tile edge the one sub-image,
\* Rect(0, 0, 1, 1), misses the frame, so it is empty and the loader panics
\* where the claim asks for one tile
C12_WitnessPanic ==
    /\ pc = "panic"
    /\ maxTileSize = MaxTileSize
    /\ orientation = 1
    /\ corrected.Rect = Rect(0, 1, 1, 2)
    /\ Cols = 1 /\ Rows = 1

\* C13: placing the k-th tile of the list at ((k mod cols)*maxTileSize,
\* (k div cols)*maxTileSize) reproduces the corrected image: every pixel of
\* the image is covered by exactly one tile pixel, no tile pixel falls
\* outside the image, and every tile pixel has the colour of the image there.
C13_TilesReassemble ==
    (/\ pc \in {"tiled", "panic"}
     /\ Dx(corrected.Rect) >= 1
     /\ Dy(corrected.Rect) >= 1) =>
        /\ pc = "tiled"
        /\ \A p \in Points(corrected.Rect) :
             Cardinality({ kq \in { <<k, q>> : k \in 0..(Len(tiled.tiles) - 1),
                                              q \in (0..(maxTileSize - 1)) \X
                                                    (0..(maxTileSize - 1)) } :
                             /\ kq[2] \in TilePoints(kq[1])
                             /\ PlacedAt(kq[1], kq[2]) = p }) = 1
        /\ \A k \in 0..(Len(tiled.tiles) - 1) :
             \A q \in TilePoints(k) :
                /\ PlacedAt(k, q) \in Points(corrected.Rect)
                /\ TileAt(k).Pix[q] = corrected.Pix[PlacedAt(k, q)]

\* a GIF frame of 2 x 2 at (1, 1) in tiles of edge 2: the one tile is 1 x 1
\* and holds the frame's first pixel only
C13_Witness ==
    /\ pc = "tiled"
    /\ maxTileSize = 2
    /\ orientation = 1
    /\ corrected.Rect = Rect(1, 1, 3, 3)
    /\ tiled.totalWidth = 2 /\ tiled.totalHeight = 2
    /\ Len(tiled.tiles) = 1
    /\ TileAt(0).Width = 1 /\ TileAt(0).Height = 1
    /\ TileAt(0).Pix[<<0, 0>>] = corrected.Pix[<<1, 1>>]

\* the visual inverse of an orientation code: 6 and 8 are each other's,
\* every other code is its own
InverseCode(o) == CASE o = 6 -> 8 [] o = 8 -> 6 [] OTHER -> o

\* C14: for every orientation code 1..8 and every image, the code's
\* transform followed by the transform of its visual inverse gives back the
\* image: the same width and height and the same colour at every pixel.
C14_RoundTrip ==
    (pc = "tiled" /\ orientation \in 1..8) =>
        \E back \in {applyEXIFOrientation(corrected, InverseCode(orientation))} :
            /\ Dx(back.Rect) = Dx(decoded.Rect)
            /\ Dy(back.Rect) = Dy(decoded.Rect)
            /\ \A p \in LoopPoints(decoded) :
                 At(back, p[1] + back.Rect.MinX, p[2] + back.Rect.MinY)
                   = At(decoded, p[1] + decoded.Rect.MinX, p[2] + decoded.Rect.MinY)

\* code 7 applied twice to a 2 x 1 image gives the image turned by 180
\* degrees, not the image
C14_Witness ==
    /\ pc = "tiled"
    /\ orientation = 7
    /\ Dx(decoded.Rect) = 2 /\ Dy(decoded.Rect) = 1
    /\ applyEXIFOrientation(corrected, 7) = rotate180(decoded)
    /\ applyEXIFOrientation(corrected, 7).Pix # decoded.Pix

\* where the claim has the pixel (x, y) of a w x h image land under code o
NamedTarget(o, x, y, w, h) ==
    CASE o = 1 -> <<x, y>>
      [] o = 2 -> <<w - 1 - x, y>>
      [] o = 3 -> <<w - 1 - x, h - 1 - y>>
      [] o = 4 -> <<x, h - 1 - y>>
      [] o = 5 -> <<y, x>>
      [] o = 6 -> <<h - 1 - y, x>>
      [] o = 7 -> <<h - 1 - y, w - 1 - x>>
      [] o = 8 -> <<y, w - 1 - x>>

\* C15: applyEXIFOrientation applies the transform named for each code: the
\* result is w x h for codes 1..4 and h x w for codes 5..8, and the pixel
\* (x, y) of the source lands at (x, y) for 1, (w-1-x, y) for 2,
\* (w-1-x, h-1-y) for 3, (x, h-1-y) for 4, (y, x) for 5, (h-1-y, x) for 6,
\* (h-1-y, w-1-x) for 7 and (y, w-1-x) for 8.
C15_NamedTransform ==
    (pc = "tiled" /\ orientation \in 1..8) =>
        /\ Dx(corrected.Rect) = IF orientation <= 4 THEN Dx(decoded.Rect)
                                ELSE Dy(decoded.Rect)
        /\ Dy(corrected.Rect) = IF orientation <= 4 THEN Dy(decoded.Rect)
                                ELSE Dx(decoded.Rect)
        /\ \A p \in LoopPoints(decoded) :
             \E t \in {NamedTarget(orientation, p[1], p[2],
                                   Dx(decoded.Rect), Dy(decoded.Rect))} :
                At(corrected, t[1] + corrected.Rect.MinX, t[2] + corrected.Rect.MinY)
                  = At(decoded, p[1] + decoded.Rect.MinX, p[2] + decoded.Rect.MinY)

\* under code 7 a 2 x 3 image comes out as under code 6, turned 90 degrees
\* clockwise, and not flipped over the top-right/bottom-left diagonal
C15_Witness ==
    /\ pc = "tiled"
    /\ orientation = 7
    /\ Dx(decoded.Rect) = 2 /\ Dy(decoded.Rect) = 3
    /\ corrected = rotate90(decoded)
    /\ At(corrected, 2, 0) = At(decoded, 0, 0)
    /\ At(corrected, 2, 1) # At(decoded, 0, 0)

\* C18: a frame is drawn by drawSlide only if there are slides, no load error
\* and at least one resident image, and then drawSlide gets the resident
\* images, as many as the current slide has photos; in every other state a
\* text is drawn and no image.
C18_FullyLoaded ==
    (/\ pc \in {"run", "exited"}
     /\ loadingError = nil
     /\ Len(currentTiledImages) > 0)
    => Len(currentTiledImages) = Len(CurrentSlide.Photos)

C18_DrawStep ==
    screen' # screen =>
        IF Len(slides) > 0 /\ loadingError = nil /\ Len(currentTiledImages) > 0
        THEN /\ screen' = SlideDrawn(CurrentSlide, currentTiledImages, gDateOverlay)
             /\ Len(screen'.images) = Len(screen'.slide.Photos)
        ELSE /\ screen'.kind \in {"No slides (photos) found.",
                                  "Error loading image(s)", "Loading slide..."}
             /\ screen'.images = <<>>

C18_DrawsOnlyLoadedSlide == []C18_FullyLoaded /\ [][C18_DrawStep]_vars

\* a two-photo slide reached by advancing is on the screen
C18_Witness ==
    /\ pc = "run"
    /\ currentIndex > 0
    /\ loadingError = nil
    /\ screen.kind = "drawSlide"
    /\ Len(screen.images) = 2
    /\ Len(CurrentSlide.Photos) = 2

\* C19: with an empty catalog main only returns: no slide list is built, no
\* game is constructed or loaded, the listener reads no line and no frame is
\* drawn; wherever main got past the check the slide list is non-empty and
\* the index is inside it, so no advance divides by zero slides.
C19_EmptyCatalogReturns ==
    /\ Len(photos) = 0 =>
         /\ pc \in {"main", "returned"}
         /\ slides = <<>>
         /\ currentTiledImages = <<>>
         /\ switchTime = 0
         /\ remoteEvents = <<>>
         /\ scanned = 0
         /\ listener = "scan"
         /\ screen.kind = ""
         /\ trace = <<>>
    /\ pc \in {"built", "constructed", "loaded", "run", "exited"} =>
         /\ Len(slides) >= 1
         /\ currentIndex \in 0..(Len(slides) - 1)
    /\ pc = "returned" => Len(photos) = 0

\* main has returned on an empty catalog
C19_Witness ==
    /\ pc = "returned"
    /\ Len(photos) = 0
    /\ slides = <<>>

(***************************************************************************)
(* Properties of the listener and the channel, under SpecRemote.           *)
(***************************************************************************)
\* the recognised key presses among the first k lines of the output, in
\* the order printed: 03 is Left, 04 is Right, 00 is Select
RECURSIVE Pressed(_)
Pressed(k) ==
    IF k = 0 THEN <<>>
    ELSE IF stdout[k] = "03" THEN Append(Pressed(k - 1), RemoteLeft)
    ELSE IF stdout[k] = "04" THEN Append(Pressed(k - 1), RemoteRight)
    ELSE IF stdout[k] = "00" THEN Append(Pressed(k - 1), RemoteSelect)
    ELSE Pressed(k - 1)

\* C16: the events received from the channel are always a prefix of the
\* recognised key presses in the order the listener read them, the events
\* waiting in the channel are the presses that follow them, and the channel
\* never holds more than 10 events.
C16_ReceivedInPressOrder ==
    pc = "listen" =>
        /\ Len(received) <= Len(Pressed(scanned))
        /\ received = SubSeq(Pressed(scanned), 1, Len(received))
        /\ remoteEvents = SubSeq(Pressed(scanned), Len(received) + 1,
                                 Len(received) + Len(remoteEvents))
        /\ Len(remoteEvents) <= 10

\* the channel is full with the listener waiting to send, after the game
\* has taken events of different kinds
C16_Witness ==
    /\ pc = "listen"
    /\ Len(remoteEvents) = 10
    /\ listener = "send"
    /\ Len(received) >= 2
    /\ received[1] # received[2]

\* C17: only Left, Right and Select ever enter the channel: RemoteUnknown is
\* neither waiting in it nor received from it, and reading a line whose key
\* code, upper-cased, is not 03, 04 or 00 sends nothing.
C17_OnlyKnownCommands ==
    pc = "listen" =>
        /\ \A i \in 1..Len(remoteEvents) :
             remoteEvents[i] \in {RemoteLeft, RemoteRight, RemoteSelect}
        /\ \A i \in 1..Len(received) :
             received[i] \in {RemoteLeft, RemoteRight, RemoteSelect}
        /\ listener = "send" => pending \in {RemoteLeft, RemoteRight, RemoteSelect}

C17_UnknownStep ==
    (/\ pc = "listen"
     /\ scanned' = scanned + 1
     /\ ToUpper(stdout[scanned + 1]) \notin {"03", "04", "00"})
    => /\ listener' = "scan"
       /\ UNCHANGED <<remoteEvents, received, pending>>

C17_UnknownDropped == []C17_OnlyKnownCommands /\ [][C17_UnknownStep]_vars

\* a press with key code 0a was read and dropped, the Right after it arrived
C17_Witness ==
    /\ pc = "listen"
    /\ Len(stdout) >= 2
    /\ stdout[1] = "0a"
    /\ stdout[2] = "04"
    /\ received = <<RemoteRight>>
    /\ listener = "exit"

(***************************************************************************)
(* Properties of the metadata cache, under SpecCache.                      *)
(***************************************************************************)
\* C20: after any sets and prunes, a get of a path with modification time m
\* hits exactly when the path has an entry and the modification time last
\* set for it is m; a hit returns the path and the timestamp, width, height
\* and orientation last set for it; a miss returns the zero Photo.
C20_HitIffSameModTime ==
    (pc = "cache" /\ lookup # NoLookup) =>
        /\ lookup.ok <=> /\ ~cache.isNil
                         /\ lookup.path \in DOMAIN written
                         /\ written[lookup.path].modTime = lookup.modTime
        /\ lookup.ok =>
             /\ lookup.photo.FilePath = lookup.path
             /\ lookup.photo.TakenTime = written[lookup.path].photo.TakenTime
             /\ lookup.photo.Width = written[lookup.path].photo.Width
             /\ lookup.photo.Height = written[lookup.path].photo.Height
             /\ lookup.photo.Orientation = written[lookup.path].photo.Orientation
        /\ ~lookup.ok => lookup.photo = ZeroPhoto

\* a path set twice is looked up with its second modification time and gives
\* the second photo; the first modification time would now miss
C20_Witness ==
    /\ pc = "cache"
    /\ lookup.ok
    /\ lookup.path = "a.jpg"
    /\ lookup.modTime = Time(1, 1)
    /\ lookup.photo.Orientation = 6
    /\ ~get(cache, "a.jpg", Time(1, 0)).ok
    /\ "b.png" \in DOMAIN written

(***************************************************************************)
(* Properties of the sync script, under SpecSync.                          *)
(***************************************************************************)
\* C21: run with OPENFRAME_START_HHMM=23:59 and OPENFRAME_STOP_HHMM=23:59,
\* at whatever time of day, the script has stopped openframe.service and
\* sent the CEC standby command, and has not started the service.
C21_OffHoursSimulated ==
    (/\ pc = "synced"
     /\ env.START = HHMM(23, 59)
     /\ env.STOP = HHMM(23, 59))
    => commands = <<"systemctl --user stop openframe.service",
                    "echo standby 0 | cec-client -s -d 1">>

\* the script has run at 12:00 with both variables set to 23:59
C21_Witness ==
    /\ pc = "synced"
    /\ env.START = HHMM(23, 59)
    /\ env.STOP = HHMM(23, 59)
    /\ clock = [H |-> TwoDigits(12), M |-> TwoDigits(0)]
    /\ commands # <<>>

(***************************************************************************)
(* Properties of the drain of the channel, under SpecControl.              *)
(***************************************************************************)
\* how many of the events q are cmd
RECURSIVE Count(_, _)
Count(q, cmd) ==
    IF q = <<>> THEN 0
    ELSE (IF Head(q) = cmd THEN 1 ELSE 0) + Count(Tail(q), cmd)

\* C26: a tick without an exit request handles every event that was waiting
\* when it began, in the order of the channel, and leaves the channel empty;
\* the events are handled before the deadline is looked at: the index has
\* moved by the Rights less the Lefts and by nothing more, and the pause
\* flag has flipped once per Select.
C26_DrainStep ==
    UpdateStep =>
        /\ received' = received \o remoteEvents
        /\ remoteEvents' = <<>>
        /\ remoteEvents # <<>> =>
             /\ currentIndex' =
                  (currentIndex + Count(remoteEvents, RemoteRight)
                   + (Len(slides) - 1) * Count(remoteEvents, RemoteLeft))
                  % Len(slides)
             /\ paused' = (paused = (Count(remoteEvents, RemoteSelect) % 2 = 0))

\* the drain of an empty channel returns at once and changes nothing
C26_EmptyDrainReturns ==
    pc = "run" => drainRemoteEvents(Game, <<>>, Readable, 0) = Game

C26_DrainsAllInOrder == []C26_EmptyDrainReturns /\ [][C26_DrainStep]_vars

\* a Left and then a Right were handled in one tick, with the deadline passed
\* when the tick began: the index is back on slide 0, whose image was loaded
\* after that of the last slide was disposed of, and the channel is empty
C26_Witness ==
    /\ pc = "run"
    /\ received = <<RemoteLeft, RemoteRight>>
    /\ remoteEvents = <<>>
    /\ Len(slides) = 3
    /\ currentIndex = 0
    /\ now > interval
    /\ switchTime = now + interval
    /\ trace = <<Dispose(TiledImage(3)),
                 [op |-> "load", photo |-> 1, ok |-> TRUE, resident |-> 0]>>

(***************************************************************************)
(* Properties of drawSlide, under SpecDraw.                                *)
(***************************************************************************)
\* half the width of the display, its width and its height
HalfWidth == FDiv(float64(LayoutWidth), float64(2))
FullWidth == float64(LayoutWidth)
FullHeight == float64(LayoutHeight)
\* 2^-30 of a pixel: far more than float64 arithmetic loses on numbers of
\* the size of the display, far less than anything that shows
Tolerance == FDiv(float64(1), float64(2^30))
\* a <= b and a = b, give or take tol (exactly so when tol is Zero)
AtMost(a, b, tol) == FLeq(a, FAdd(b, tol))
Near(a, b, tol) == FLeq(FAbs(FSub(a, b)), tol)
\* the calls that drew the tiles of loaded[i]: each image is drawn by as
\* many calls as it has tiles, the left image first
CallsOf(i) ==
    IF i = 1 THEN SubSeq(drawCalls, 1, Len(loaded[1].tiles))
    ELSE SubSeq(drawCalls, Len(loaded[1].tiles) + 1,
                Len(loaded[1].tiles) + Len(loaded[2].tiles))
\* the number of tiles of all the images
RECURSIVE TilesUpTo(_)
TilesUpTo(i) == IF i = 0 THEN 0 ELSE TilesUpTo(i - 1) + Len(loaded[i].tiles)
\* the calls after those that drew tiles
CallsAfterTiles == SubSeq(drawCalls, TilesUpTo(Len(loaded)) + 1, Len(drawCalls))
\* the edges on the screen of what the call c draws
LeftEdge(c) == c.GeoM.tx
TopEdge(c) == c.GeoM.ty
RightEdge(c) == FAdd(c.GeoM.tx, FMul(GeoMA(c.GeoM), float64(c.img.Width)))
BottomEdge(c) == FAdd(c.GeoM.ty, FMul(GeoMD(c.GeoM), float64(c.img.Height)))
\* the scale s = min((W/2)/w, H/h) of the i-th photo of a pair
PairScale(i) ==
    FMin(FDiv(HalfWidth, float64(loaded[i].totalWidth)),
         FDiv(FullHeight, float64(loaded[i].totalHeight)))
\* the half of the display that belongs to the i-th photo
HalfMin(i) == IF i = 1 THEN float64(0) ELSE HalfWidth
HalfMax(i) == IF i = 1 THEN HalfWidth ELSE FullWidth
\* the columns of the loader's grid for loaded[i], and the number of its tiles
ColsOf(i) == (loaded[i].totalWidth + maxTileSize - 1) \div maxTileSize
TilesOf(i) ==
    IF loaded[i].totalWidth = 0 \/ loaded[i].totalHeight = 0 THEN 0
    ELSE ColsOf(i) * ((loaded[i].totalHeight + maxTileSize - 1) \div maxTileSize)
\* the tiles of loaded[i] are the cells of its grid, each of them whole (as
\* the loader cuts them from an image whose bounds start at (0, 0))
Whole(i) ==
    /\ Len(loaded[i].tiles) = TilesOf(i)
    /\ \A k \in 0..(TilesOf(i) - 1) :
         \E subX \in {(k % ColsOf(i)) * maxTileSize},
            subY \in {(k \div ColsOf(i)) * maxTileSize} :
             /\ loaded[i].tiles[k + 1].Width
                    = IF subX + maxTileSize < loaded[i].totalWidth
                      THEN maxTileSize ELSE loaded[i].totalWidth - subX
             /\ loaded[i].tiles[k + 1].Height
                    = IF subY + maxTileSize < loaded[i].totalHeight
                      THEN maxTileSize ELSE loaded[i].totalHeight - subY
\* the scale and the edges on the screen of what the call c draws
Drawn(c) ==
    [a |-> GeoMA(c.GeoM), d |-> GeoMD(c.GeoM),
     left |-> LeftEdge(c), right |-> RightEdge(c),
     top |-> TopEdge(c), bottom |-> BottomEdge(c)]
\* the tiles drawn at the scale s cover the box x0..x1, y0..y1, give or
\* take tol: each of them is drawn at that scale inside the box, and each
\* side of the box is reached by one of them
Covers(tiles, s, x0, y0, x1, y1, tol) ==
    /\ tiles # <<>>
    /\ \A k \in DOMAIN tiles :
         /\ Near(tiles[k].a, s, tol)
         /\ Near(tiles[k].d, s, tol)
         /\ AtMost(x0, tiles[k].left, tol)
         /\ AtMost(tiles[k].right, x1, tol)
         /\ AtMost(y0, tiles[k].top, tol)
         /\ AtMost(tiles[k].bottom, y1, tol)
    /\ \E k \in DOMAIN tiles : Near(tiles[k].left, x0, tol)
    /\ \E k \in DOMAIN tiles : Near(tiles[k].right, x1, tol)
    /\ \E k \in DOMAIN tiles : Near(tiles[k].top, y0, tol)
    /\ \E k \in DOMAIN tiles : Near(tiles[k].bottom, y1, tol)

\* the tiles of loaded[i] as they are drawn
RECURSIVE DrawnFrom(_, _)
DrawnFrom(calls, k) ==
    IF k > Len(calls) THEN <<>> ELSE <<Drawn(calls[k])>> \o DrawnFrom(calls, k + 1)
DrawnTiles(i) == DrawnFrom(CallsOf(i), 1)

\* what C27 says of the i-th photo, w x h, of a pair, with s its scale and
\* sw, sh its scaled width and height, give or take tol
FitsOwnHalf(i, s, sw, sh, tol) ==
    \* it fits half the width and the full height, and fills one of them
    /\ AtMost(sw, HalfWidth, tol)
    /\ AtMost(sh, FullHeight, tol)
    /\ Near(sw, HalfWidth, tol) \/ Near(sh, FullHeight, tol)
    \* it is drawn centred in its half, and over the full height
    /\ \E x0 \in {FAdd(HalfMin(i), FDiv(FSub(HalfWidth, sw), float64(2)))},
          y0 \in {FDiv(FSub(FullHeight, sh), float64(2))},
          tiles \in {DrawnTiles(i)} :
         /\ Covers(tiles, s, x0, y0, FAdd(x0, sw), FAdd(y0, sh), tol)
         /\ Near(FSub(x0, HalfMin(i)), FSub(HalfMax(i), FAdd(x0, sw)), tol)
         /\ Near(y0, FSub(FullHeight, FAdd(y0, sh)), tol)
         \* inside its half
         /\ AtMost(HalfMin(i), x0, tol)
         /\ AtMost(FAdd(x0, sw), HalfMax(i), tol)

\* C27 with every comparison give or take tol
SideBySideFit(tol) ==
    (/\ pc \in {"drawn", "panic"}
     /\ Len(loaded) = 2
     /\ \A i \in 1..2 :
          loaded[i].totalWidth >= 1 /\ loaded[i].totalHeight >= 1 /\ Whole(i)) =>
        /\ pc = "drawn"
        /\ \A i \in 1..2 :
             \E s \in {PairScale(i)} :
                 \E sw \in {FMul(float64(loaded[i].totalWidth), s)},
                    sh \in {FMul(float64(loaded[i].totalHeight), s)} :
                     FitsOwnHalf(i, s, sw, sh, tol)
        /\ \E lefts \in {DrawnTiles(1)}, rights \in {DrawnTiles(2)} :
             \A k \in DOMAIN lefts, l \in DOMAIN rights :
                 AtMost(lefts[k].right, rights[l].left, tol)

\* C27 as stated: when a slide of two photos, each at least 1 x 1 and cut
\* into whole tiles, is drawn on the W x H display, each photo of w x h
\* pixels is drawn at the scale s = min((W/2)/w, H/h), so that w*s <= W/2
\* and h*s <= H with equality in at least one of the two, and is centred in
\* its own half: the left photo lies within x in [0, W/2] and the right one
\* within [W/2, W], so that the two never overlap.
C27_SideBySideFit == SideBySideFit(Zero)

\* C27, amended: the same with every bound and every equality holding up
\* to the rounding of float64, that is within 2^-30 of a pixel, in a build
\* that fuses the products into the sums and in one that does not: the
\* scaled width can come out one rounding step above W/2, and the photo
\* then reaches that far out of its half.
C27_FitUpToRounding == SideBySideFit(Tolerance)

\* a 29 x 30 photo, bound by the half width, beside a 2 x 3 photo, bound by
\* the height, in tiles of edge MaxDrawTile with the dates over them: the
\* scale 960/29 is rounded, 29 times the scale is 960.0000000000001, and the
\* left photo starts left of x = 0; the right photo is drawn at the scale
\* 360 from x = 1080 to x = 1800
C27_Witness ==
    /\ pc = "drawn"
    /\ maxTileSize = MaxDrawTile
    /\ gDateOverlay
    /\ Len(loaded) = 2
    /\ loaded[1].totalWidth = 29 /\ loaded[1].totalHeight = 30
    /\ loaded[2].totalWidth = 2 /\ loaded[2].totalHeight = 3
    /\ Len(drawCalls) = 7
    /\ FLess(HalfWidth, FMul(float64(29), PairScale(1)))
    /\ FLess(LeftEdge(drawCalls[1]), float64(0))
    /\ GeoMA(drawCalls[5].GeoM) = float64(360)
    /\ LeftEdge(drawCalls[5]) = float64(1080)
    /\ RightEdge(drawCalls[5]) = float64(1800)

\* the scale and, for that scale, the offsets drawSlide draws loaded[i] with
ScaleOf(i) ==
    IF Len(loaded) = 1
    THEN computeScale(loaded[i].totalWidth, loaded[i].totalHeight,
                      LayoutWidth, LayoutHeight)
    ELSE computeScale(loaded[i].totalWidth, loaded[i].totalHeight,
                      LayoutWidth \div 2, LayoutHeight)
OffsetXOf(i, scale) ==
    IF Len(loaded) = 1
    THEN FDiv(FSub(FullWidth, FMul(float64(loaded[i].totalWidth), scale)),
              float64(2))
    ELSE FAdd(HalfMin(i),
              FDiv(FSub(HalfWidth, FMul(float64(loaded[i].totalWidth), scale)),
                   float64(2)))
OffsetYOf(i, scale) ==
    FDiv(FSub(FullHeight, FMul(float64(loaded[i].totalHeight), scale)),
         float64(2))
\* the tile t is the part of the decoded w-wide image whose corner is (x, y)
IsPartAt(t, w, x, y) ==
    \A q \in (0..(t.Width - 1)) \X (0..(t.Height - 1)) :
        t.Pix[q] = (y + q[2]) * w + (x + q[1]) + 1
\* where the claim puts the corner of the tile cut at sub along one axis, of
\* an image drawn at the scale given from offset
Corner(offset, sub, scale) == FAdd(offset, FMul(float64(sub), scale))

\* C29 with the scale and the corner of every tile give or take tol
DrawFollowsLoaderGrid(tol) ==
    pc \in {"drawn", "panic"} =>
        /\ pc = "drawn"
        /\ \A i \in DOMAIN loaded :
             /\ Len(loaded[i].tiles) = TilesOf(i)
             /\ \E scale \in {ScaleOf(i)}, calls \in {CallsOf(i)} :
                \E offsetX \in {OffsetXOf(i, scale)}, offsetY \in {OffsetYOf(i, scale)} :
                \A k \in 0..(TilesOf(i) - 1) :
                  \E c \in {calls[k + 1]},
                     subX \in {(k % ColsOf(i)) * maxTileSize},
                     subY \in {(k \div ColsOf(i)) * maxTileSize} :
                      /\ c.img = loaded[i].tiles[k + 1]
                      /\ Whole(i) => IsPartAt(c.img, loaded[i].totalWidth, subX, subY)
                      /\ Near(GeoMA(c.GeoM), scale, tol)
                      /\ Near(GeoMD(c.GeoM), scale, tol)
                      /\ Near(c.GeoM.tx, Corner(offsetX, subX, scale), tol)
                      /\ Near(c.GeoM.ty, Corner(offsetY, subY, scale), tol)
        \* no other call draws a tile
        /\ \A k \in DOMAIN CallsAfterTiles : "text" \in DOMAIN CallsAfterTiles[k].img

\* C29 as stated: the draw loops and the loader agree on the tile grid. For
\* an image of any width and height, 0 and exact multiples of maxTileSize
\* included, the drawing ends without an index outside the tile list and
\* makes one call per tile of the list, in the order of the list; the k-th
\* call draws the tile the loader cut at column tileX = k mod cols and row
\* tileY = k div cols, that is the part of the image from
\* (tileX*maxTileSize, tileY*maxTileSize), and draws it at the scale given
\* with its top-left corner at (offsetX + tileX*maxTileSize*scale,
\* offsetY + tileY*maxTileSize*scale).
C29_DrawFollowsLoaderGrid == DrawFollowsLoaderGrid(Zero)

\* C29, amended: the same with the corner of every tile at that place up to
\* the rounding of float64, that is within 2^-30 of a pixel: the code moves
\* the tile by its centre, and the sum that gives the centre is rounded,
\* once or twice as the build has it.
C29_GridUpToRounding == DrawFollowsLoaderGrid(Tolerance)

\* a 1 x 7 image alone, in tiles of edge 2: scale 1080/7, four calls, the
\* last one the tile from (0, 6), one pixel high; the corner of one of the
\* tiles is not where the sum of the claim puts it
C29_Witness ==
    /\ pc = "drawn"
    /\ maxTileSize = 2
    /\ Len(loaded) = 1
    /\ loaded[1].totalWidth = 1 /\ loaded[1].totalHeight = 7
    /\ ~gDateOverlay
    /\ Len(drawCalls) = 4
    /\ drawCalls[4].img = loaded[1].tiles[4]
    /\ drawCalls[4].img.Height = 1
    /\ drawCalls[4].img.Pix[<<0, 0>>] = 7
    /\ GeoMA(drawCalls[4].GeoM) = FDiv(float64(1080), float64(7))
    /\ \E k \in 1..4 :
         drawCalls[k].GeoM.ty
             # Corner(OffsetYOf(1, ScaleOf(1)), (k - 1) * 2, ScaleOf(1))

\* images without tiles are drawn by no call: a 0 x 1 image beside a 1 x 0
\* one, with nothing but the two dates drawn
C29_WitnessEmpty ==
    /\ pc = "drawn"
    /\ Len(loaded) = 2
    /\ loaded[1].totalWidth = 0 /\ loaded[1].totalHeight = 1
    /\ loaded[2].totalWidth = 1 /\ loaded[2].totalHeight = 0
    /\ gDateOverlay
    /\ Len(drawCalls) = 2
    /\ drawCalls[1].img.text = <<"1", "9", "7", "0", "-", "0", "1", "-", "0", "1">>
    /\ drawCalls[2].img.text = <<"1", "9", "7", "0", "-", "0", "1", "-", "0", "2">>

(***************************************************************************)
(* Backpressure on the channel, under SpecBackpressure.                    *)
(***************************************************************************)
Blocked == pc = "run" /\ listener = "send" /\ Len(remoteEvents) = RemoteEventsCap
\* the event the listener is about to send
InFlight == IF listener = "send" THEN <<pending>> ELSE <<>>

\* every recognised press read so far is taken, queued or about to be sent,
\* in the order read; the channel holds at most 10, and the listener comes
\* to wait exactly with its 11th press not yet taken
C30_NothingLost ==
    pc = "run" =>
        /\ received \o remoteEvents \o InFlight = Pressed(scanned)
        /\ Len(remoteEvents) <= RemoteEventsCap
        /\ Blocked => Len(Pressed(scanned)) = Len(received) + RemoteEventsCap + 1

\* a step taken while the listener waits: the listener reads no line and
\* keeps its event; it goes on waiting unless the step takes the head of the
\* channel, and then the event is still to be sent
C30_BlockedStep ==
    Blocked =>
        /\ UNCHANGED <<scanned, pending, stdout>>
        /\ listener' = "send"
        /\ remoteEvents' = remoteEvents \/ remoteEvents' = Tail(remoteEvents)
        /\ remoteEvents' = remoteEvents => Blocked' \/ pc' # "run"

\* a send goes through only into a channel with room, and then the event
\* sent is the last of the channel
C30_SendStep ==
    (pc = "run" /\ listener = "send" /\ listener' = "scan") =>
        /\ Len(remoteEvents) < RemoteEventsCap
        /\ remoteEvents' = Append(remoteEvents, pending)

\* C30: the overflow policy is backpressure. With 10 events in the channel
\* the listener's send waits until an event is taken out; no recognised
\* press is dropped or overwritten; while it waits the listener reads no
\* further input; and as long as the loop takes no event, the listener
\* stays blocked from its 11th press on, whatever ticks the loop runs.
C30_Backpressure ==
    []C30_NothingLost /\ [][C30_BlockedStep /\ C30_SendStep]_vars

\* the loop has taken no event: the listener waits with its 11th press, the
\* channel full, while the loop has ticked and the timer has moved the
\* slideshow on to its second slide
C30_Witness ==
    /\ Blocked
    /\ received = <<>>
    /\ scanned = RemoteEventsCap + 1
    /\ Len(slides) >= 2
    /\ currentIndex = 1
    /\ screen.kind = "drawSlide"
    /\ now > 0

\* after the loop took one event the waiting send went through: the 11th
\* press is the last of the channel
C30_WitnessReleased ==
    /\ pc = "run"
    /\ Len(received) = 1
    /\ listener = "scan"
    /\ scanned = RemoteEventsCap + 1
    /\ Len(remoteEvents) = RemoteEventsCap
    /\ remoteEvents[RemoteEventsCap] = Pressed(scanned)[RemoteEventsCap + 1]

====
